---- MODULE Spec2Model ----
(***************************************************************************)
(* A model of the aggregation engine of fin-table-prep                     *)
(* (aggregering.py, apply_aggregeringer) and of its aggregation detector   *)
(* (src/analysis/aggregation.py, detect_aggregation_patterns_v2).          *)
(*                                                                         *)
(* A DataFrame is a record [columns, dtype, rows]: the ordered column      *)
(* names, the dtype of every column, and the rows in positional order,     *)
(* each row a function from column name to cell value.  Cell values are    *)
(* integers: codes and measures are themselves, a text value is the        *)
(* integer that stands for it, and NaN is the missing value.               *)
(***************************************************************************)
EXTENDS Integers, Sequences, FiniteSets, TLC

VARIABLES
    df_base,          \* the caller's base table (the object passed in)
    aggregeringer,    \* the caller's descriptor list
    value_cols_arg,   \* the caller's value_cols argument ([is_none, list])
    call,             \* the three arguments as they were when first passed
    value_cols,       \* local: the resolved list of measure columns
    agg_results,      \* local: the list of roll-up frames built so far
    i,                \* local: position of the single-dimension loop
    todo,             \* local: combinations the cross loop has still to do
    pc,               \* position of the call
    ret,              \* what the call returned: [ref, df]
    prev,             \* what the previous call with these arguments returned
    calls,            \* number of calls made with these arguments
    df_input,         \* detector: the caller's input table
    df_output,        \* detector: the caller's output table
    mappings,         \* detector: the caller's mapping, in insertion order
    d_call,           \* detector: the three arguments as first passed
    aggregations,     \* detector local: the findings appended so far
    pos,              \* detector local: position of the loop over mappings
    d_pc,             \* detector: position of the call
    d_ret,            \* detector: what the call returned
    d_prev,           \* detector: what the previous call returned
    d_calls,          \* detector: number of calls made with these arguments
    script_ret,       \* what the generated-script copy of the detector returned
    classified,       \* what classify_aggregation_type returned for each finding
    pairs_df,         \* pair detection: the table passed as df
    pairs,            \* pair detection local: the pairs appended so far
    used,             \* pair detection local: the columns already in a pair
    col_pos,          \* pair detection local: position of the loop over cols
    p_pc,             \* pair detection: position of the call
    p_ret             \* pair detection: the list the call returned

evars == <<df_base, aggregeringer, value_cols_arg, call, value_cols,
           agg_results, i, todo, pc, ret, prev, calls>>

dvars == <<df_input, df_output, mappings, d_call, aggregations, pos,
           d_pc, d_ret, d_prev, d_calls, script_ret, classified>>

pvars == <<pairs_df, pairs, used, col_pos, p_pc, p_ret>>

vars == <<evars, dvars, pvars>>

-----------------------------------------------------------------------------
(* Bounds of the model *)

MaxRows == 2
MaxAggs == 3
MaxLongRows == 5

-----------------------------------------------------------------------------
(* Values and strings *)

NaN == -1

IsNull(v) == v = NaN

Range(s) == {s[n] : n \in DOMAIN s}

InSeq(x, s) == \E n \in DOMAIN s : s[n] = x

\* str.endswith
EndsWith(s, suffix) ==
    /\ Len(s) >= Len(suffix)
    /\ SubSeq(s, Len(s) - Len(suffix) + 1, Len(s)) = suffix

\* the `in` operator on two strings
Contains(s, k) ==
    \E n \in 1..(Len(s) - Len(k) + 1) : SubSeq(s, n, n + Len(k) - 1) = k

UpperChars == "ABCDEFGHIJKLMNOPQRSTUVWXYZ"
LowerChars == "abcdefghijklmnopqrstuvwxyz"

LowerChar(ch) ==
    IF \E n \in 1..Len(UpperChars) : SubSeq(UpperChars, n, n) = ch
    THEN LET n == CHOOSE n \in 1..Len(UpperChars) : SubSeq(UpperChars, n, n) = ch
         IN  SubSeq(LowerChars, n, n)
    ELSE ch

\* str.lower
Lower(s) ==
    LET F[n \in 0..Len(s)] ==
            IF n = 0 THEN "" ELSE F[n - 1] \o LowerChar(SubSeq(s, n, n))
    IN  F[Len(s)]

-----------------------------------------------------------------------------
(* Label columns *)

LabelPatterns == <<".1", "_fmt", "_label", "_navn", "_name">>

\* find_label_col: the first of base_col + pattern that is a column, or None
NoLabel == ""

\* a search that returns the last pattern that is a column
find_label_col_last(base_col, columns) ==
    LET found == {n \in DOMAIN LabelPatterns : InSeq(base_col \o LabelPatterns[n], columns)}
    IN  IF found = {} THEN NoLabel
        ELSE base_col \o LabelPatterns[CHOOSE n \in found : \A o \in found : o <= n]

find_label_col(base_col, columns) ==
    LET hits == {n \in DOMAIN LabelPatterns : InSeq(base_col \o LabelPatterns[n], columns)}
    IN  IF hits = {} THEN NoLabel
        ELSE base_col \o LabelPatterns[CHOOSE n \in hits : \A m \in hits : n <= m]

\* is_label_col: the name ends in one of the label suffixes
is_label_col(col) ==
    \E n \in DOMAIN LabelPatterns : EndsWith(col, LabelPatterns[n])

-----------------------------------------------------------------------------
(* DataFrames *)

NumericDtypes == {"int64", "float64", "int32", "float32", "int16", "float16"}

EmptyFrame == [columns |-> <<>>, dtype |-> <<>>, rows |-> <<>>]

\* agg 'count' in place of 'sum': the number of non-missing values
CountCol(rows, col) ==
    Cardinality({n \in DOMAIN rows : ~IsNull(rows[n][col])})

\* Series.sum(): the sum of the non-missing values, 0 when there are none
SumCol(rows, col) ==
    LET F[n \in 0..Len(rows)] ==
            IF n = 0 THEN 0
            ELSE F[n - 1] + (IF IsNull(rows[n][col]) THEN 0 ELSE rows[n][col])
    IN  F[Len(rows)]

\* Series.nunique(): the number of distinct non-missing values
NUnique(df, col) ==
    Cardinality({df.rows[n][col] : n \in DOMAIN df.rows} \ {NaN})

\* df[col] = value: every row gets the value; a new column goes last
SetColumn(df, col, value, dt) ==
    [columns |-> IF InSeq(col, df.columns) THEN df.columns ELSE Append(df.columns, col),
     dtype   |-> [c \in Range(df.columns) \cup {col} |-> IF c = col THEN dt ELSE df.dtype[c]],
     rows    |-> [n \in DOMAIN df.rows |->
                    [c \in Range(df.columns) \cup {col} |->
                        IF c = col THEN value ELSE df.rows[n][c]]]]

\* the key of a row under the grouping columns
GroupKey(row, group_cols) == [n \in DOMAIN group_cols |-> row[group_cols[n]]]

\* groupby without dropna=False: keys with a missing value are dropped
KeepKeyDropNa(key, dropna) ==
    \A n \in DOMAIN key : ~IsNull(key[n])

\* dropna: whether groupby keeps a key (it drops keys with a missing value
\* only when dropna is set)
KeepKey(key, dropna) ==
    dropna => \A n \in DOMAIN key : ~IsNull(key[n])

\* the order of group values: ascending, missing values last
ValLess(a, b) == ~IsNull(a) /\ (IsNull(b) \/ a < b)

KeyLess(a, b) ==
    \E n \in DOMAIN a :
        /\ \A m \in 1..(n - 1) : a[m] = b[m]
        /\ ValLess(a[n], b[n])

\* groupby(sort=True): the group keys in ascending order
RECURSIVE SortKeys(_)
SortKeys(keys) ==
    IF keys = {} THEN <<>>
    ELSE LET least == CHOOSE k \in keys : \A o \in keys \ {k} : KeyLess(k, o)
         IN  <<least>> \o SortKeys(keys \ {least})

\* the keys of a Python dict built from a list: first occurrences, in order
RECURSIVE DictKeys(_)
DictKeys(s) ==
    IF s = <<>> THEN <<>>
    ELSE LET front == DictKeys(SubSeq(s, 1, Len(s) - 1))
         IN  IF InSeq(s[Len(s)], front) THEN front ELSE Append(front, s[Len(s)])

\* df.groupby(group_cols, dropna=dropna).agg(agg_dict) raises: no group keys
\* (ValueError), nothing to aggregate (ValueError), unknown column (KeyError)
GroupByRaises(df, group_cols, agg_cols) ==
    \/ group_cols = <<>>
    \/ agg_cols = <<>>
    \/ \E n \in DOMAIN agg_cols : ~InSeq(agg_cols[n], df.columns)

\* a groupby that does not merge: one row per row of the frame
GroupByPerRow(df, group_cols, agg_cols, dropna) ==
    LET kept == SelectSeq(df.rows, LAMBDA r : KeepKey(GroupKey(r, group_cols), dropna))
        cols == Range(group_cols) \cup Range(agg_cols)
    IN  [columns |-> group_cols \o agg_cols,
         dtype   |-> [c \in cols |-> df.dtype[c]],
         rows    |-> [n \in DOMAIN kept |->
                        [c \in cols |-> IF IsNull(kept[n][c]) /\ InSeq(c, agg_cols)
                                        THEN 0 ELSE kept[n][c]]]]

\* df.groupby(group_cols, dropna=dropna).agg(agg_dict).reset_index():
\* one row per group key, the keys sorted, each aggregated column summed
GroupBy(df, group_cols, agg_cols, dropna) ==
    LET kept   == SelectSeq(df.rows, LAMBDA r : KeepKey(GroupKey(r, group_cols), dropna))
        keys   == {GroupKey(kept[n], group_cols) : n \in DOMAIN kept}
        sorted == SortKeys(keys)
        cols   == Range(group_cols) \cup Range(agg_cols)
        Pos(c) == CHOOSE n \in DOMAIN group_cols : group_cols[n] = c
        Members(k) == SelectSeq(kept, LAMBDA r : GroupKey(r, group_cols) = k)
    IN  [columns |-> group_cols \o agg_cols,
         dtype   |-> [c \in cols |-> df.dtype[c]],
         rows    |-> [n \in DOMAIN sorted |->
                        [c \in cols |->
                            IF InSeq(c, group_cols) THEN sorted[n][Pos(c)]
                            ELSE SumCol(Members(sorted[n]), c)]]]

\* a grand total that yields no row
SumFrameNoRow(df, agg_cols) ==
    [columns |-> agg_cols,
     dtype   |-> [c \in Range(agg_cols) |-> df.dtype[c]],
     rows    |-> <<>>]

\* pd.DataFrame({col: [df[col].sum()] for col in value_cols}): one row of
\* sums; no row at all when there is no column
SumFrame(df, agg_cols) ==
    [columns |-> agg_cols,
     dtype   |-> [c \in Range(agg_cols) |-> df.dtype[c]],
     rows    |-> IF agg_cols = <<>> THEN <<>>
                 ELSE << [c \in Range(agg_cols) |-> SumCol(df.rows, c)] >>]

\* the columns of a concatenation: their union, in order of first appearance
RECURSIVE UnionColumns(_)
UnionColumns(frames) ==
    IF frames = <<>> THEN <<>>
    ELSE LET front == UnionColumns(SubSeq(frames, 1, Len(frames) - 1))
             last  == frames[Len(frames)].columns
         IN  front \o SelectSeq(last, LAMBDA c : ~InSeq(c, front))

\* the rows of a frame laid out on the given columns, NaN where it has none
Reindex(df, cols) ==
    [n \in DOMAIN df.rows |->
        [c \in Range(cols) |-> IF InSeq(c, df.columns) THEN df.rows[n][c] ELSE NaN]]

\* the frames laid out last frame first
RECURSIVE ConcatRowsReversed(_, _)
ConcatRowsReversed(frames, cols) ==
    IF frames = <<>> THEN <<>>
    ELSE ConcatRowsReversed(Tail(frames), cols) \o Reindex(Head(frames), cols)

RECURSIVE ConcatRows(_, _)
ConcatRows(frames, cols) ==
    IF frames = <<>> THEN <<>>
    ELSE Reindex(Head(frames), cols) \o ConcatRows(Tail(frames), cols)

\* the dtype of a concatenated column: object if any part is, a float when
\* a part is a float or lacks the column
ConcatDtype(frames, c) ==
    LET have == {n \in DOMAIN frames : InSeq(c, frames[n].columns)}
        dts  == {frames[n].dtype[c] : n \in have}
    IN  IF "object" \in dts THEN "object"
        ELSE IF "float64" \in dts \/ have # DOMAIN frames THEN "float64"
        ELSE "int64"

\* a concatenation that drops repeated rows
ConcatDropDuplicates(frames) ==
    LET cols == UnionColumns(frames)
    IN  [columns |-> cols,
         dtype   |-> [c \in Range(cols) |-> ConcatDtype(frames, c)],
         rows    |-> DictKeys(ConcatRows(frames, cols))]

\* pd.concat(frames, ignore_index=True)
Concat(frames) ==
    LET cols == UnionColumns(frames)
    IN  [columns |-> cols,
         dtype   |-> [c \in Range(cols) |-> ConcatDtype(frames, c)],
         rows    |-> ConcatRows(frames, cols)]

\* returning df_base itself: the same object
DataFrameAlias(df) == [ref |-> "base", df |-> df]

\* df.copy(): a new object with the same content
DataFrameCopy(df) == [ref |-> "new", df |-> df]

-----------------------------------------------------------------------------
(* itertools.combinations *)

\* the r-element index tuples over lo..n, each increasing, in the order
\* itertools.combinations emits them
RECURSIVE CombinationsFrom(_, _, _)
CombinationsFrom(lo, n, r) ==
    IF r = 0 THEN << <<>> >>
    ELSE IF lo > n THEN <<>>
    ELSE [k \in 1..Len(CombinationsFrom(lo + 1, n, r - 1)) |->
              <<lo>> \o CombinationsFrom(lo + 1, n, r - 1)[k]]
         \o CombinationsFrom(lo + 1, n, r)

combinations(n, r) == CombinationsFrom(1, n, r)

\* for r in range(lo, hi + 1): for agg_combo in combinations(aggregeringer, r)
RECURSIVE CrossCombosFrom(_, _, _)
CrossCombosFrom(r, hi, n) ==
    IF r > hi THEN <<>> ELSE combinations(n, r) \o CrossCombosFrom(r + 1, hi, n)

\* range(2, len(aggregeringer)): the combination of all descriptors is left out
CrossCombosNoFull(n) == CrossCombosFrom(2, n - 1, n)

\* the combinations of the cross loop: range(2, len(aggregeringer) + 1)
CrossCombos(n) == CrossCombosFrom(2, n, n)

-----------------------------------------------------------------------------
(* apply_aggregeringer: resolving the measure columns *)

\* the measure keywords without the word for a count
value_keywords_without_antall ==
    <<"count", "value", "verdi", "beløp", "sum", "total",
      "inntekt", "utgift", "pris", "kr", "prosent", "andel", "rate",
      "kostnad", "lønn", "skatt", "avgift", "bestand", "saldo">>

value_keywords ==
    <<"antall", "count", "value", "verdi", "beløp", "sum", "total",
      "inntekt", "utgift", "pris", "kr", "prosent", "andel", "rate",
      "kostnad", "lønn", "skatt", "avgift", "bestand", "saldo">>

dimension_keywords ==
    <<"år", "aar", "year", "dato", "date", "tid", "time",
      "id", "kode", "code", "nr", "nummer", "number",
      "alder", "age", "måned", "month", "dag", "day",
      "uke", "week", "kvartal", "quarter">>

\* any(keyword in col_lower for keyword in keywords)
AnyKeyword(col_lower, keywords) ==
    \E n \in DOMAIN keywords : Contains(col_lower, keywords[n])

\* dim_cols: every descriptor's column and that name followed by .1
DimCols(aggs) ==
    {aggs[n].kolonne : n \in DOMAIN aggs} \cup {aggs[n].kolonne \o ".1" : n \in DOMAIN aggs}

\* an auto-detection in which a measure keyword wins over a dimension keyword
IsAutoValueColKeywordFirst(df, aggs, c) ==
    /\ c \notin DimCols(aggs)
    /\ ~EndsWith(c, ".1")
    /\ df.dtype[c] \in NumericDtypes
    /\ LET col_lower == Lower(c)
           is_value_keyword     == AnyKeyword(col_lower, value_keywords)
           is_dimension_keyword == AnyKeyword(col_lower, dimension_keywords)
       IN  IF is_value_keyword THEN TRUE
           ELSE IF is_dimension_keyword THEN FALSE
           ELSE 10 * NUnique(df, c) > 2 * Len(df.rows)

\* whether the auto-detection takes column c as a measure column
IsAutoValueCol(df, aggs, c) ==
    /\ c \notin DimCols(aggs)
    /\ ~EndsWith(c, ".1")
    /\ df.dtype[c] \in NumericDtypes
    /\ LET col_lower == Lower(c)
           is_value_keyword     == AnyKeyword(col_lower, value_keywords)
           is_dimension_keyword == AnyKeyword(col_lower, dimension_keywords)
       IN  IF is_value_keyword /\ ~is_dimension_keyword THEN TRUE
           ELSE IF is_dimension_keyword THEN FALSE
           ELSE 10 * NUnique(df, c) > 2 * Len(df.rows)

\* the auto-detected value_cols, in column order
AutoValueCols(df, aggs) ==
    SelectSeq(df.columns, LAMBDA c : IsAutoValueCol(df, aggs, c))

\* a resolution that detects the measure columns whatever the argument
ResolveValueColsAuto(df, aggs, arg) == AutoValueCols(df, aggs)

\* value_cols as the body uses it: the argument, or the auto-detected list
ResolveValueCols(df, aggs, arg) ==
    IF arg.is_none THEN AutoValueCols(df, aggs) ELSE arg.list

\* a list that outlives the call (a mutable default) in place of a new list
KeepAggResults(old) == old

\* agg_results = []
NewAggResults(old) == <<>>

-----------------------------------------------------------------------------
(* apply_aggregeringer: one roll-up *)

\* the label columns resolved for the given descriptor columns, in order
RECURSIVE LabelCols(_, _)
LabelCols(kolonner, columns) ==
    IF kolonner = <<>> THEN <<>>
    ELSE LET lbl == find_label_col(Head(kolonner), columns)
         IN  (IF lbl # NoLabel THEN <<lbl>> ELSE <<>>)
             \o LabelCols(Tail(kolonner), columns)

\* the descriptor columns of a combination
Kolonner(aggs, combo) == [n \in DOMAIN combo |-> aggs[combo[n]].kolonne]

\* exclude_cols of the single-dimension loop
SingleExcludeCols(df, agg, vcols) ==
    LET label_col == find_label_col(agg.kolonne, df.columns)
    IN  <<agg.kolonne>> \o vcols
        \o (IF label_col # NoLabel THEN <<label_col>> ELSE <<>>)

\* exclude_cols holding the first dimension of the combination only
CrossExcludeColsFirstOnly(df, aggs, combo, vcols) ==
    <<aggs[combo[1]].kolonne>> \o LabelCols(Kolonner(aggs, combo), df.columns) \o vcols

\* exclude_cols of the cross loop
CrossExcludeCols(df, aggs, combo, vcols) ==
    Kolonner(aggs, combo) \o LabelCols(Kolonner(aggs, combo), df.columns) \o vcols

\* group_cols: the columns not excluded and not named like a label column
GroupCols(df, exclude_cols) ==
    SelectSeq(df.columns, LAMBDA c : ~InSeq(c, exclude_cols) /\ ~is_label_col(c))

\* the total code written, the label column left as it is
SetTotalCodeOnly(df_total, columns, agg) ==
    SetColumn(df_total, agg.kolonne, agg.total_verdi, "int64")

\* the total code of a descriptor, and its total label if a label column was
\* found, written into a roll-up frame
SetTotal(df_total, columns, agg) ==
    LET lbl_col == find_label_col(agg.kolonne, columns)
        coded   == SetColumn(df_total, agg.kolonne, agg.total_verdi, "int64")
    IN  IF lbl_col # NoLabel
        THEN SetColumn(coded, lbl_col, agg.total_label, "object")
        ELSE coded

\* the totals of the descriptors of a combination, written in order
RECURSIVE SetTotals(_, _, _, _)
SetTotals(df_total, columns, aggs, combo) ==
    IF combo = <<>> THEN df_total
    ELSE SetTotals(SetTotal(df_total, columns, aggs[Head(combo)]), columns, aggs, Tail(combo))

\* the roll-up frame of one descriptor (body of the single-dimension loop)
SingleRollup(df, aggs, n, vcols) ==
    LET group_cols == GroupCols(df, SingleExcludeCols(df, aggs[n], vcols))
        df_total   == GroupBy(df, group_cols, DictKeys(vcols), FALSE)
    IN  SetTotals(df_total, df.columns, aggs, <<n>>)

SingleRaises(df, aggs, n, vcols) ==
    GroupByRaises(df, GroupCols(df, SingleExcludeCols(df, aggs[n], vcols)), DictKeys(vcols))

\* the roll-up frame of one combination (body of the cross loop)
CrossRollup(df, aggs, combo, vcols) ==
    LET group_cols == GroupCols(df, CrossExcludeCols(df, aggs, combo, vcols))
        df_cross   == IF group_cols = <<>>
                      THEN SumFrame(df, DictKeys(vcols))
                      ELSE GroupBy(df, group_cols, DictKeys(vcols), FALSE)
    IN  SetTotals(df_cross, df.columns, aggs, combo)

-----------------------------------------------------------------------------
(* test_aggregering_strategi_1: the sequential roll-up *)

NotRaised(df) == [raised |-> FALSE, df |-> df]

Raised == [raised |-> TRUE, df |-> EmptyFrame]

\* group_cols of the strategy: every column but the dimension, 'antall' and
\* the columns whose name ends with '.1'
Strategi1GroupCols(df_result, agg) ==
    SelectSeq(df_result.columns,
              LAMBDA c : c \notin {agg.kolonne, "antall"} /\ ~EndsWith(c, ".1"))

\* one pass of the loop: the roll-up of everything gathered so far, with the
\* total code and the total label in '<kolonne>.1', put after it
Strategi1Step(df_result, agg) ==
    LET group_cols == Strategi1GroupCols(df_result, agg)
        df_total   == GroupBy(df_result, group_cols, <<"antall">>, FALSE)
        coded      == SetColumn(df_total, agg.kolonne, agg.total_verdi, "int64")
        labelled   == SetColumn(coded, agg.kolonne \o ".1", agg.total_label, "object")
    IN  IF GroupByRaises(df_result, group_cols, <<"antall">>)
        THEN Raised
        ELSE NotRaised(Concat(<<df_result, labelled>>))

\* the loop over agg_list, starting from a copy of the base table
RECURSIVE Strategi1(_, _)
Strategi1(df, agg_list) ==
    IF agg_list = <<>> THEN NotRaised(df)
    ELSE LET front == Strategi1(df, SubSeq(agg_list, 1, Len(agg_list) - 1))
         IN  IF front.raised THEN Raised
             ELSE Strategi1Step(front.df, agg_list[Len(agg_list)])

-----------------------------------------------------------------------------
(* The calls the model makes *)

\* the column layouts of the base tables
Schemas ==
    { <<"kjonn", "kjonn.1", "bosted", "bosted_fmt", "antall">>,
      <<"aar", "kjonn", "antall">>,
      <<"kjonn", "antall">> }

\* the values a code or measure column takes
ColumnValues(c) ==
    CASE c = "aar"    -> {2024}
      [] c = "kjonn"  -> {1, 2}
      [] c = "bosted" -> {1, NaN}
      [] OTHER        -> {1, 2}

\* the text that goes with a code (a label is a function of its code)
LabelText(code) == IF IsNull(code) THEN NaN ELSE code + 10

\* the code column a label column of the layout belongs to
BaseOf(c, columns) ==
    CHOOSE b \in Range(columns) : \E n \in DOMAIN LabelPatterns : b \o LabelPatterns[n] = c

CodeColumns(columns) == {c \in Range(columns) : ~is_label_col(c)}

\* the rows of a layout; in the layout of two dimensions the count of a row
\* is its first code
RowsOf(columns) ==
    { [c \in Range(columns) |->
          IF is_label_col(c) THEN LabelText(codes[BaseOf(c, columns)]) ELSE codes[c]] :
      codes \in { f \in [CodeColumns(columns) -> {NaN, 1, 2, 2024}] :
                    /\ \A c \in CodeColumns(columns) : f[c] \in ColumnValues(c)
                    /\ InSeq("bosted", columns) => f["antall"] = f["kjonn"] } }

\* the dtype pandas gives a column: text is object, numbers with a missing
\* value are floats
DtypeOf(c, rows) ==
    IF is_label_col(c) THEN "object"
    ELSE IF \E n \in DOMAIN rows : IsNull(rows[n][c]) THEN "float64"
    ELSE "int64"

MakeFrame(columns, rows) ==
    [columns |-> columns,
     dtype   |-> [c \in Range(columns) |-> DtypeOf(c, rows)],
     rows    |-> rows]

BaseTables ==
    UNION { { MakeFrame(columns, rows) :
                rows \in UNION { [1..n -> RowsOf(columns)] : n \in 0..MaxRows } } :
            columns \in Schemas }

\* a longer table of one layout: a year, a code column with two label
\* columns, a second code column, a count, the second column of a repeated
\* "antall" header, and a count whose name also holds a dimension keyword;
\* every column but the labels numeric
LongColumns ==
    <<"aar", "kjonn", "kjonn_fmt", "kjonn.1", "bosted", "antall", "antall.1", "antall_aar">>

LongRow(v) ==
    [c \in Range(LongColumns) |->
        CASE c = "aar"        -> 2024
          [] c = "bosted"     -> 1
          [] c = "antall_aar" -> 7
          [] c \in {"kjonn_fmt", "kjonn.1"} -> LabelText(v)
          [] OTHER            -> v]

\* rows with one code and count, the last row with either of two
LongTables ==
    { [columns |-> LongColumns,
       dtype   |-> [c \in Range(LongColumns) |->
                       IF c \in {"kjonn_fmt", "kjonn.1"} THEN "object" ELSE "int64"],
       rows    |-> [n \in 1..len |-> LongRow(IF n = len THEN last ELSE 1)]] :
      len \in 0..MaxLongRows, last \in {1, 2} }

\* detail-level tables of the layout the strategies are tried on: two code
\* columns each with its '.1' label column, and the count, with or without
\* a year
DetailColumns == <<"aar", "kjonn", "kjonn.1", "bosted", "bosted.1", "antall">>

DetailLayouts == {DetailColumns, Tail(DetailColumns)}

DetailRow(columns, n) ==
    LET kjonn  == 1 + (n % 2)
        bosted == 1 + ((n \div 2) % 2)
    IN  [c \in Range(columns) |->
            CASE c = "aar"      -> 2024
              [] c = "kjonn"    -> kjonn
              [] c = "kjonn.1"  -> LabelText(kjonn)
              [] c = "bosted"   -> bosted
              [] c = "bosted.1" -> LabelText(bosted)
              [] OTHER          -> n]

DetailTables ==
    { [columns |-> columns,
       dtype   |-> [c \in Range(columns) |->
                       IF c \in {"kjonn.1", "bosted.1"} THEN "object" ELSE "int64"],
       rows    |-> [n \in 1..len |-> DetailRow(columns, n)]] :
      columns \in DetailLayouts, len \in 0..MaxLongRows }

\* the descriptors: two on columns of the layouts, one on a column of none
Descriptors ==
    { [kolonne |-> "kjonn",  total_verdi |-> 3,   total_label |-> 30],
      [kolonne |-> "bosted", total_verdi |-> 301, total_label |-> 31],
      [kolonne |-> "fylke",  total_verdi |-> 99,  total_label |-> 32] }

\* descriptor lists: no two descriptors on the same column
AggLists ==
    UNION { { s \in [1..n -> Descriptors] :
                \A a, b \in 1..n : a # b => s[a].kolonne # s[b].kolonne } :
            n \in 0..MaxAggs }

None == [is_none |-> TRUE, list |-> <<>>]

\* the value_cols arguments: none, or the measure columns of the table
ValueColsArgs(df) ==
    {None} \cup { [is_none |-> FALSE, list |-> <<c>>] : c \in {"antall"} \cap Range(df.columns) }

NoReturn == [ref |-> "none", df |-> EmptyFrame]

\* a detector table: [columns, dtype, cells], the cells of each column in
\* positional order as the text of their value
NoTable == [columns |-> <<>>, dtype |-> <<>>, cells |-> <<>>]

NoResult == [returned |-> FALSE, aggregations |-> <<>>]

\* the copy of the detector has not been called
NotCalled == [called |-> FALSE, raised |-> FALSE, aggregations |-> <<>>]

\* the detector is not called
DetectorIdle ==
    /\ df_input = NoTable
    /\ df_output = NoTable
    /\ mappings = <<>>
    /\ d_call = [df_input |-> NoTable, df_output |-> NoTable, mappings |-> <<>>]
    /\ aggregations = <<>>
    /\ pos = 0
    /\ d_pc = "idle"
    /\ d_ret = NoResult
    /\ d_prev = NoResult
    /\ d_calls = 0
    /\ script_ret = NotCalled
    /\ classified = <<>>

\* the pair detection is not called
PairsIdle ==
    /\ pairs_df = EmptyFrame
    /\ pairs = <<>>
    /\ used = {}
    /\ col_pos = 0
    /\ p_pc = "idle"
    /\ p_ret = <<>>

Init ==
    \E df \in BaseTables \cup LongTables \cup DetailTables, aggs \in AggLists :
    \E vc \in ValueColsArgs(df) :
        /\ df_base = df
        /\ aggregeringer = aggs
        /\ value_cols_arg = vc
        /\ call = [df_base |-> df, aggregeringer |-> aggs, value_cols |-> vc]
        /\ value_cols = <<>>
        /\ agg_results = <<>>
        /\ i = 0
        /\ todo = <<>>
        /\ pc = "start"
        /\ ret = NoReturn
        /\ prev = NoReturn
        /\ calls = 1
        /\ DetectorIdle
        /\ PairsIdle

-----------------------------------------------------------------------------
(* apply_aggregeringer, step by step *)

\* if not aggregeringer: return df_base.copy()
ReturnCopy ==
    /\ pc = "start"
    /\ aggregeringer = <<>>
    /\ ret' = DataFrameCopy(df_base)
    /\ pc' = "done"
    /\ UNCHANGED <<df_base, aggregeringer, value_cols_arg, call, value_cols,
                   agg_results, i, todo, prev, calls>>
    /\ UNCHANGED <<dvars, pvars>>

\* value_cols resolved, agg_dict built, agg_results = []
Prepare ==
    /\ pc = "start"
    /\ aggregeringer # <<>>
    /\ value_cols' = ResolveValueCols(df_base, aggregeringer, value_cols_arg)
    /\ agg_results' = NewAggResults(agg_results)
    /\ i' = 1
    /\ todo' = <<>>
    /\ pc' = "single"
    /\ UNCHANGED <<df_base, aggregeringer, value_cols_arg, call, ret, prev, calls>>
    /\ UNCHANGED <<dvars, pvars>>

\* one pass of `for agg in aggregeringer`; after the last one the cross loop
\* has every combination of two or more descriptors to do
SingleStep ==
    /\ pc = "single"
    /\ i <= Len(aggregeringer)
    /\ ~SingleRaises(df_base, aggregeringer, i, value_cols)
    /\ agg_results' = Append(agg_results, SingleRollup(df_base, aggregeringer, i, value_cols))
    /\ i' = i + 1
    /\ IF i = Len(aggregeringer)
       THEN pc' = "cross" /\ todo' = CrossCombos(Len(aggregeringer))
       ELSE pc' = "single" /\ todo' = todo
    /\ UNCHANGED <<df_base, aggregeringer, value_cols_arg, call, value_cols,
                   ret, prev, calls>>
    /\ UNCHANGED <<dvars, pvars>>

\* the groupby of a single-dimension roll-up raises; the call ends
SingleRaise ==
    /\ pc = "single"
    /\ i <= Len(aggregeringer)
    /\ SingleRaises(df_base, aggregeringer, i, value_cols)
    /\ pc' = "raised"
    /\ UNCHANGED <<df_base, aggregeringer, value_cols_arg, call, value_cols,
                   agg_results, i, todo, ret, prev, calls>>
    /\ UNCHANGED <<dvars, pvars>>

\* one pass of the cross loop that groups on the remaining columns (its
\* groupby cannot raise: the single-dimension loop ran the same agg_dict)
CrossGroupBy ==
    /\ pc = "cross"
    /\ todo # <<>>
    /\ GroupCols(df_base, CrossExcludeCols(df_base, aggregeringer, Head(todo), value_cols)) # <<>>
    /\ agg_results' = Append(agg_results,
                             CrossRollup(df_base, aggregeringer, Head(todo), value_cols))
    /\ todo' = Tail(todo)
    /\ UNCHANGED <<df_base, aggregeringer, value_cols_arg, call, value_cols,
                   i, pc, ret, prev, calls>>
    /\ UNCHANGED <<dvars, pvars>>

\* one pass of the cross loop with no column left to group on (grand total)
CrossGrandTotal ==
    /\ pc = "cross"
    /\ todo # <<>>
    /\ GroupCols(df_base, CrossExcludeCols(df_base, aggregeringer, Head(todo), value_cols)) = <<>>
    /\ agg_results' = Append(agg_results,
                             CrossRollup(df_base, aggregeringer, Head(todo), value_cols))
    /\ todo' = Tail(todo)
    /\ UNCHANGED <<df_base, aggregeringer, value_cols_arg, call, value_cols,
                   i, pc, ret, prev, calls>>
    /\ UNCHANGED <<dvars, pvars>>

\* df_final = pd.concat([df_base] + agg_results, ignore_index=True); return
ConcatReturn ==
    /\ pc = "cross"
    /\ todo = <<>>
    /\ ret' = [ref |-> "new", df |-> Concat(<<df_base>> \o agg_results)]
    /\ pc' = "done"
    /\ UNCHANGED <<df_base, aggregeringer, value_cols_arg, call, value_cols,
                   agg_results, i, todo, prev, calls>>
    /\ UNCHANGED <<dvars, pvars>>

\* the caller calls again with the same arguments
CallAgain ==
    /\ pc = "done"
    /\ calls = 1
    /\ prev' = ret
    /\ ret' = NoReturn
    /\ calls' = 2
    /\ pc' = "start"
    /\ UNCHANGED <<df_base, aggregeringer, value_cols_arg, call, value_cols,
                   agg_results, i, todo>>
    /\ UNCHANGED <<dvars, pvars>>

\* the caller overwrites the first column of the table it was returned
MutateResult ==
    /\ pc = "done"
    /\ LET changed == SetColumn(ret.df, ret.df.columns[1], 0, "int64")
       IN  /\ ret' = [ret EXCEPT !.df = changed]
           /\ df_base' = IF ret.ref = "base" THEN changed ELSE df_base
    /\ pc' = "mutated"
    /\ UNCHANGED <<aggregeringer, value_cols_arg, call, value_cols,
                   agg_results, i, todo, prev, calls>>
    /\ UNCHANGED <<dvars, pvars>>

Next ==
    \/ ReturnCopy
    \/ Prepare
    \/ SingleStep
    \/ SingleRaise
    \/ CrossGroupBy
    \/ CrossGrandTotal
    \/ ConcatReturn
    \/ CallAgain
    \/ MutateResult

Spec == Init /\ [][Next]_vars

TypeOK ==
    /\ pc \in {"start", "single", "cross", "done", "raised", "mutated"}
    /\ calls \in 1..2
    /\ i \in 0..(MaxAggs + 1)

-----------------------------------------------------------------------------
(* detect_aggregation_patterns_v2: values *)

MaxPairs == 2

\* a missing cell of a detector column
NullCell == "NaN"

\* the characters of the values, in code point order
CodePointOrder == ".0123456789"

CharRank ==
    [ch \in {SubSeq(CodePointOrder, n, n) : n \in 1..Len(CodePointOrder)} |->
        CHOOSE n \in 1..Len(CodePointOrder) : SubSeq(CodePointOrder, n, n) = ch]

\* a number that orders strings of at most `width` characters as Python
\* orders them: character by character, a proper prefix first
RECURSIVE StrKeyFrom(_, _, _, _)
StrKeyFrom(str, n, width, key) ==
    IF n > width THEN key
    ELSE StrKeyFrom(str, n + 1, width,
                    key * (Len(CodePointOrder) + 1)
                        + (IF n <= Len(str) THEN CharRank[SubSeq(str, n, n)] ELSE 0))

StrKey(str, width) == StrKeyFrom(str, 1, width, 0)

\* the values in descending order
SortedDescending(values) ==
    LET width  == IF values = {} THEN 0
                  ELSE CHOOSE w \in {Len(x) : x \in values} :
                           \A x \in values : Len(x) <= w
        keyed  == { <<StrKey(x, width), x>> : x \in values }
        ranked == { <<Cardinality({q \in keyed : q[1] > p[1]}) + 1, p[2]>> : p \in keyed }
    IN  [n \in 1..Cardinality(values) |-> (CHOOSE r \in ranked : r[1] = n)[2]]

\* sorted(values) of a set of strings: every value at the position that
\* counts the values before it
Sorted(values) ==
    LET width  == IF values = {} THEN 0
                  ELSE CHOOSE w \in {Len(x) : x \in values} :
                           \A x \in values : Len(x) <= w
        keyed  == { <<StrKey(x, width), x>> : x \in values }
        ranked == { <<Cardinality({q \in keyed : q[1] < p[1]}) + 1, p[2]>> : p \in keyed }
    IN  [n \in 1..Cardinality(values) |-> (CHOOSE r \in ranked : r[1] = n)[2]]

\* str(v) of a cell of a column: a whole number of a float column gets ".0"
AsTypeStr(dt, cell) == IF dt = "float64" THEN cell \o ".0" ELSE cell

\* set(df[col].dropna().astype(str).unique())
StrValues(df, col) ==
    { AsTypeStr(df.dtype[col], cell) : cell \in Range(df.cells[col]) \ {NullCell} }

\* df[col].nunique()
nunique(df, col) == Cardinality(Range(df.cells[col]) \ {NullCell})

-----------------------------------------------------------------------------
(* detect_aggregation_patterns_v2: one mapping entry *)

\* the label test of the loop
IsLabelPair(col_in, col_out) ==
    EndsWith(col_in, "_fmt") \/ Contains(col_out, ".1") \/ Contains(col_out, ".2")

\* either column of the entry is not in its table
IsMissingPair(dfi, dfo, col_in, col_out) ==
    ~InSeq(col_in, dfi.columns) \/ ~InSeq(col_out, dfo.columns)

\* a ceiling that already excludes a column with exactly 50 distinct values
ExceedsCeilingAtFifty(n) == n >= 50

\* the cardinality test on the output column
ExceedsCeiling(n) == n > 50

\* every output value is taken as new
AllOutputVals(vals_in, vals_out) == vals_out

\* new_vals = vals_out - vals_in
NewVals(vals_in, vals_out) == vals_out \ vals_in

\* a binary test that asks for three input values
IsBinaryTotalOfThree(num_input, num_new) == num_input = 3 /\ num_new = 1

IsBinaryTotal(num_input, num_new) == num_input = 2 /\ num_new = 1

\* a geography test that does not look at the input values
IsGeographyRollupNewOnly(new_vals, vals_in) == \A v \in new_vals : Len(v) <= 3

IsGeographyRollup(new_vals, vals_in) ==
    /\ \A v \in new_vals : Len(v) <= 3
    /\ \A v \in vals_in : Len(v) > 3

IsCategoryGrouping(num_input, num_new) == num_input > 10 /\ num_new < 5

\* the name-based fallback
NameType(col_out) ==
    LET name == Lower(col_out)
    IN  IF Contains(name, "kjønn") \/ Contains(name, "kjonn") THEN "gender"
        ELSE IF \E g \in {"geo", "bydel", "bosted", "arbeidssted"} : Contains(name, g)
             THEN "geography"
        ELSE "other"

\* a classification that tries the geography rule before the binary rule
ClassifyGeographyFirst(col_out, vals_in, new_vals) ==
    IF IsGeographyRollup(new_vals, vals_in) THEN "geography_rollup"
    ELSE IF IsBinaryTotal(Cardinality(vals_in), Cardinality(new_vals)) THEN "binary_total"
    ELSE IF IsCategoryGrouping(Cardinality(vals_in), Cardinality(new_vals))
         THEN "category_grouping"
    ELSE NameType(col_out)

\* agg_type of the if / elif chain
Classify(col_out, vals_in, new_vals) ==
    IF IsBinaryTotal(Cardinality(vals_in), Cardinality(new_vals)) THEN "binary_total"
    ELSE IF IsGeographyRollup(new_vals, vals_in) THEN "geography_rollup"
    ELSE IF IsCategoryGrouping(Cardinality(vals_in), Cardinality(new_vals))
         THEN "category_grouping"
    ELSE NameType(col_out)

\* description of the if / elif chain
Description(agg_type, col_out, vals_in, vals_out, new_vals) ==
    CASE agg_type = "binary_total" ->
             "Binær aggregering (2→3): Trolig \"Total/Begge\" kategori"
      [] agg_type = "geography_rollup" ->
             "Geografisk aggregering: Detaljert nivå → Totalnivå"
      [] agg_type = "category_grouping" ->
             "Kategori-gruppering: " \o ToString(Cardinality(vals_in)) \o " verdier → "
                 \o ToString(Cardinality(vals_out)) \o " (inkl. "
                 \o ToString(Cardinality(new_vals)) \o " aggregerte)"
      [] agg_type = "gender" -> "Kjønnsaggregering (Begge kjønn)"
      [] agg_type = "geography" -> "Geografisk aggregering"
      [] OTHER -> "Aggregering i " \o col_out

\* the dict appended for an entry with new values
Finding(col_in, col_out, vals_in, vals_out) ==
    LET new_vals == NewVals(vals_in, vals_out)
        agg_type == Classify(col_out, vals_in, new_vals)
    IN  [column        |-> col_out,
         input_column  |-> col_in,
         new_values    |-> Sorted(new_vals),
         type          |-> agg_type,
         description   |-> Description(agg_type, col_out, vals_in, vals_out, new_vals),
         input_values  |-> Sorted(vals_in),
         output_values |-> Sorted(vals_out)]

\* a list that outlives the call in place of a new list
KeepAggregations(old) == old

\* aggregations = []
NewAggregations(old) == <<>>

-----------------------------------------------------------------------------
(* The calls the model makes of the detector *)

\* the codes of a detailed level (five characters) and of a coarse level (one
\* or two), and the codes only an output table has: of three characters and
\* of four
LongCode(k)  == ToString(30100 + k)
ShortCode(k) == ToString(k)
NewShort(j)  == ToString(300 + j)
NewLong(j)   == ToString(3000 + j)

\* what the dimension columns of a pair of tables hold: the input columns
\* the first n_in codes of a level, the output columns the first n_keep of
\* them and n_new codes of their own; either with or without a missing cell
ShapeOf(in_long, n_in, in_null, n_keep, new_long, n_new, out_null) ==
    [in_long |-> in_long, n_in |-> n_in, in_null |-> in_null, n_keep |-> n_keep,
     new_long |-> new_long, n_new |-> n_new, out_null |-> out_null]

\* few values: binary and not, with and without new values, fully null
SmallShapes ==
    { ShapeOf(il, ni, ni = 0, nk, new[1], new[2], nk + new[2] = 0) :
        il \in BOOLEAN, ni \in {0, 2, 3}, nk \in {0, 2},
        new \in {<<FALSE, 0>>, <<FALSE, 1>>, <<TRUE, 1>>, <<FALSE, 2>>} }

\* a missing cell beside the values, which makes the column a float column
FloatShapes ==
    { ShapeOf(il, 2, inn, 2, FALSE, nn, ~inn) :
        il \in BOOLEAN, inn \in BOOLEAN, nn \in {0, 1} }

\* around the thresholds of the category rule
CategoryShapes ==
    { ShapeOf(TRUE, ni, FALSE, ni, nl, nn, FALSE) :
        ni \in {10, 11}, nl \in BOOLEAN, nn \in {4, 5} }

\* around the cardinality ceiling, on either side of the pair
CeilingShapes ==
    { ShapeOf(TRUE, ni, FALSE, nk, FALSE, 1, FALSE) : ni \in {2, 51}, nk \in {2, 49, 50} }

\* codes of one character beside a new code of three, which the order of
\* strings puts between them
OrderShapes == { ShapeOf(FALSE, 4, FALSE, 4, FALSE, 1, FALSE) }

Shapes == SmallShapes \cup FloatShapes \cup CategoryShapes \cup CeilingShapes \cup OrderShapes

Code(shape, k) == IF shape.in_long THEN LongCode(k) ELSE ShortCode(k)

InputCells(shape) ==
    [k \in 1..shape.n_in |-> Code(shape, k)]
        \o (IF shape.in_null THEN <<NullCell>> ELSE <<>>)

OutputCells(shape) ==
    [k \in 1..shape.n_keep |-> Code(shape, k)]
        \o [j \in 1..shape.n_new |-> IF shape.new_long THEN NewLong(j) ELSE NewShort(j)]
        \o (IF shape.out_null THEN <<NullCell>> ELSE <<>>)

\* the mapping entries: a gender, a geography and another dimension, label
\* companions by their input name, by their output name and as dotted
\* variants, an input column the input table does not have, and an output
\* column the output table does not have
NamePairs ==
    << [col_in |-> "kjoenn",      col_out |-> "Kjonn"],
      [col_in |-> "bydel",       col_out |-> "bosted"],
      [col_in |-> "naering",     col_out |-> "naering"],
      [col_in |-> "kjoenn_fmt",  col_out |-> "kjonn_navn"],
      [col_in |-> "bydel_navn",  col_out |-> "bosted_fmt"],
      [col_in |-> "alder",       col_out |-> "alder.1"],
      [col_in |-> "sivilstand",  col_out |-> "sivilstand.2"],
      [col_in |-> "fylke",       col_out |-> "fylke"],
      [col_in |-> "alder",       col_out |-> "aldersgruppe"] >>

InputColumns ==
    <<"kjoenn", "kjoenn_fmt", "bydel", "bydel_navn", "naering", "alder", "sivilstand">>

OutputColumns ==
    <<"Kjonn", "kjonn_navn", "bosted", "bosted_fmt", "naering", "alder.1",
      "sivilstand.2", "fylke">>

\* pd.DataFrame with the same cells in every column
MakeTable(columns, cells) ==
    [columns |-> columns,
     dtype   |-> [c \in Range(columns) |->
                     IF InSeq(NullCell, cells) THEN "float64" ELSE "int64"],
     cells   |-> [c \in Range(columns) |-> cells]]

\* the orders of insertion: the entries as listed above, or the other way
\* round
InsertionOrders(n) ==
    { t \in [1..n -> DOMAIN NamePairs] :
        \/ \A a, b \in 1..n : a < b => t[a] < t[b]
        \/ \A a, b \in 1..n : a < b => t[a] > t[b] }

\* mappings: a dict, so no two entries with the same input column
MappingLists ==
    UNION { { s \in { [k \in 1..n |-> NamePairs[t[k]]] : t \in InsertionOrders(n) } :
                \A a, b \in 1..n : a # b => s[a].col_in # s[b].col_in } :
            n \in 0..MaxPairs }

\* the engine is not called
EngineIdle ==
    /\ df_base = EmptyFrame
    /\ aggregeringer = <<>>
    /\ value_cols_arg = None
    /\ call = [df_base |-> EmptyFrame, aggregeringer |-> <<>>, value_cols |-> None]
    /\ value_cols = <<>>
    /\ agg_results = <<>>
    /\ i = 0
    /\ todo = <<>>
    /\ pc = "idle"
    /\ ret = NoReturn
    /\ prev = NoReturn
    /\ calls = 0

InitDetect ==
    \E shape \in Shapes, maps \in MappingLists :
        LET dfi == MakeTable(InputColumns, InputCells(shape))
            dfo == MakeTable(OutputColumns, OutputCells(shape))
        IN  /\ df_input = dfi
            /\ df_output = dfo
            /\ mappings = maps
            /\ d_call = [df_input |-> dfi, df_output |-> dfo, mappings |-> maps]
            /\ aggregations = <<>>
            /\ pos = 0
            /\ d_pc = "start"
            /\ d_ret = NoResult
            /\ d_prev = NoResult
            /\ d_calls = 1
            /\ script_ret = NotCalled
            /\ classified = <<>>
            /\ EngineIdle
            /\ PairsIdle

-----------------------------------------------------------------------------
(* detect_aggregation_patterns_v2, step by step *)

\* aggregations = []; the loop over mappings.items() begins
StartDetect ==
    /\ d_pc = "start"
    /\ aggregations' = NewAggregations(aggregations)
    /\ pos' = 1
    /\ d_pc' = "loop"
    /\ UNCHANGED <<df_input, df_output, mappings, d_call, script_ret, classified, d_ret, d_prev, d_calls>>
    /\ UNCHANGED <<evars, pvars>>

InLoop == d_pc = "loop" /\ pos <= Len(mappings)

\* a break in place of the continue: the loop over the n entries is left
BreakAt(p, n) == n + 1

\* continue at entry p of n: the loop goes on with the next entry
ContinueAt(p, n) == p + 1

\* the entry the loop is at is past the label test and the existence test
Present ==
    /\ InLoop
    /\ ~IsLabelPair(mappings[pos].col_in, mappings[pos].col_out)
    /\ ~IsMissingPair(df_input, df_output, mappings[pos].col_in, mappings[pos].col_out)

\* ... and past the cardinality test
Considered ==
    /\ Present
    /\ ~ExceedsCeiling(nunique(df_output, mappings[pos].col_out))

\* continue: a label column
SkipLabel ==
    /\ InLoop
    /\ IsLabelPair(mappings[pos].col_in, mappings[pos].col_out)
    /\ pos' = pos + 1
    /\ UNCHANGED <<df_input, df_output, mappings, d_call, script_ret, classified, aggregations,
                   d_pc, d_ret, d_prev, d_calls>>
    /\ UNCHANGED <<evars, pvars>>

\* continue: a column that is not in its table
SkipMissing ==
    /\ InLoop
    /\ ~IsLabelPair(mappings[pos].col_in, mappings[pos].col_out)
    /\ IsMissingPair(df_input, df_output, mappings[pos].col_in, mappings[pos].col_out)
    /\ pos' = ContinueAt(pos, Len(mappings))
    /\ UNCHANGED <<df_input, df_output, mappings, d_call, script_ret, classified, aggregations,
                   d_pc, d_ret, d_prev, d_calls>>
    /\ UNCHANGED <<evars, pvars>>

\* continue: an output column of high cardinality
SkipCardinality ==
    /\ Present
    /\ ExceedsCeiling(nunique(df_output, mappings[pos].col_out))
    /\ pos' = pos + 1
    /\ UNCHANGED <<df_input, df_output, mappings, d_call, script_ret, classified, aggregations,
                   d_pc, d_ret, d_prev, d_calls>>
    /\ UNCHANGED <<evars, pvars>>

\* new_vals is empty: nothing is appended
NoNewValues ==
    /\ Considered
    /\ NewVals(StrValues(df_input, mappings[pos].col_in),
               StrValues(df_output, mappings[pos].col_out)) = {}
    /\ pos' = pos + 1
    /\ UNCHANGED <<df_input, df_output, mappings, d_call, script_ret, classified, aggregations,
                   d_pc, d_ret, d_prev, d_calls>>
    /\ UNCHANGED <<evars, pvars>>

\* new_vals is not empty: the entry is classified and a finding appended
AppendFinding ==
    /\ Considered
    /\ LET vals_in  == StrValues(df_input, mappings[pos].col_in)
           vals_out == StrValues(df_output, mappings[pos].col_out)
       IN  /\ NewVals(vals_in, vals_out) # {}
           /\ aggregations' = Append(aggregations,
                                     Finding(mappings[pos].col_in, mappings[pos].col_out,
                                             vals_in, vals_out))
    /\ pos' = pos + 1
    /\ UNCHANGED <<df_input, df_output, mappings, d_call, script_ret, classified, d_pc, d_ret, d_prev, d_calls>>
    /\ UNCHANGED <<evars, pvars>>

\* return {'aggregations': aggregations}
ReturnFindings ==
    /\ d_pc = "loop"
    /\ pos > Len(mappings)
    /\ d_ret' = [returned |-> TRUE, aggregations |-> aggregations]
    /\ d_pc' = "returned"
    /\ UNCHANGED <<df_input, df_output, mappings, d_call, script_ret, classified, aggregations, pos,
                   d_prev, d_calls>>
    /\ UNCHANGED <<evars, pvars>>

\* the caller runs the detector again on the same tables and mapping
DetectAgain ==
    /\ d_pc = "returned"
    /\ d_calls = 1
    /\ d_prev' = d_ret
    /\ d_ret' = NoResult
    /\ d_calls' = 2
    /\ d_pc' = "start"
    /\ UNCHANGED <<df_input, df_output, mappings, d_call, script_ret, classified, aggregations, pos>>
    /\ UNCHANGED <<evars, pvars>>

-----------------------------------------------------------------------------
(* detect_aggregation_patterns_v2 of generate_prep_script_v2.py *)

\* a chain that asks the name of the column before the values
ScriptClassifyNameFirst(col_out, vals_in, vals_out, new_vals) ==
    LET name == Lower(col_out)
    IN  IF Contains(name, "kjønn") \/ Contains(name, "kjonn")
        THEN [type |-> "gender", description |-> "Kjønnsaggregering (Begge kjønn)"]
        ELSE [type |-> "other", description |-> "Aggregering i " \o col_out]

\* the if / elif chain of the copy: agg_type and description
ScriptClassify(col_out, vals_in, vals_out, new_vals) ==
    LET num_input == Cardinality(vals_in)
        num_new   == Cardinality(new_vals)
        name      == Lower(col_out)
    IN  IF num_input = 2 /\ num_new = 1
        THEN [type        |-> "binary_total",
              description |-> "Binær aggregering (2→3): Trolig \"Total/Begge\" kategori"]
        ELSE IF (\A v \in new_vals : Len(v) <= 3) /\ (\A v \in vals_in : Len(v) > 3)
        THEN [type        |-> "geography_rollup",
              description |-> "Geografisk aggregering: Detaljert nivå → Totalnivå"]
        ELSE IF num_input > 10 /\ num_new < 5
        THEN [type        |-> "category_grouping",
              description |-> "Kategori-gruppering: " \o ToString(num_input) \o " verdier → "
                                  \o ToString(Cardinality(vals_out)) \o " (inkl. "
                                  \o ToString(num_new) \o " aggregerte)"]
        ELSE IF Contains(name, "kjønn") \/ Contains(name, "kjonn")
        THEN [type |-> "gender", description |-> "Kjønnsaggregering (Begge kjønn)"]
        ELSE IF \E g \in {"geo", "bydel", "bosted", "arbeidssted"} : Contains(name, g)
        THEN [type |-> "geography", description |-> "Geografisk aggregering"]
        ELSE [type |-> "other", description |-> "Aggregering i " \o col_out]

\* the dict the copy appends
ScriptFinding(col_in, col_out, vals_in, vals_out) ==
    LET new_vals == vals_out \ vals_in
        agg      == ScriptClassify(col_out, vals_in, vals_out, new_vals)
    IN  [column        |-> col_out,
         input_column  |-> col_in,
         new_values    |-> Sorted(new_vals),
         type          |-> agg.type,
         description   |-> agg.description,
         input_values  |-> Sorted(vals_in),
         output_values |-> Sorted(vals_out)]

\* the label test of the copy
ScriptIsLabel(entry) ==
    EndsWith(entry.col_in, "_fmt") \/ Contains(entry.col_out, ".1")
        \/ Contains(entry.col_out, ".2")

\* the copy has no test for missing columns: df_output[col_out] raises a
\* KeyError for an output column the table lacks, and df_input[col_in] for
\* an input column, once the cardinality test is passed
ScriptRaisesAt(dfi, dfo, entry) ==
    /\ ~ScriptIsLabel(entry)
    /\ \/ ~InSeq(entry.col_out, dfo.columns)
       \/ /\ ~(nunique(dfo, entry.col_out) > 50)
          /\ ~InSeq(entry.col_in, dfi.columns)

\* the loop of the copy over mappings.items(), when nothing raises
RECURSIVE ScriptLoop(_, _, _)
ScriptLoop(dfi, dfo, maps) ==
    IF maps = <<>> THEN <<>>
    ELSE LET front == ScriptLoop(dfi, dfo, SubSeq(maps, 1, Len(maps) - 1))
             entry == maps[Len(maps)]
         IN  IF ScriptIsLabel(entry) THEN front
             ELSE IF nunique(dfo, entry.col_out) > 50 THEN front
             ELSE LET vals_in  == StrValues(dfi, entry.col_in)
                      vals_out == StrValues(dfo, entry.col_out)
                  IN  IF vals_out \ vals_in = {} THEN front
                      ELSE Append(front, ScriptFinding(entry.col_in, entry.col_out,
                                                       vals_in, vals_out))

\* the call of the copy as a whole: it raises, or returns its findings
ScriptDetectPatterns(dfi, dfo, maps) ==
    IF \E n \in DOMAIN maps : ScriptRaisesAt(dfi, dfo, maps[n])
    THEN [called |-> TRUE, raised |-> TRUE, aggregations |-> <<>>]
    ELSE [called |-> TRUE, raised |-> FALSE, aggregations |-> ScriptLoop(dfi, dfo, maps)]

-----------------------------------------------------------------------------
(* classify_aggregation_type of analysemetodikk.py *)

classify_aggregation_type(col_name, new_vals, input_vals, output_vals) ==
    LET num_input  == Cardinality(input_vals)
        num_output == Cardinality(output_vals)
        num_new    == Cardinality(new_vals)
        name       == Lower(col_name)
    IN  IF num_input = 2 /\ num_new = 1
        THEN [type        |-> "binary_total",
              description |-> "Binær aggregering (2→3): Trolig \"Total/Begge\" kategori"]
        ELSE IF (\A v \in new_vals : Len(v) <= 3) /\ (\A v \in input_vals : Len(v) > 3)
        THEN [type        |-> "geography_rollup",
              description |-> "Geografisk aggregering: Detaljert nivå → Totalnivå"]
        ELSE IF num_input > 10 /\ num_new < 5
        THEN [type        |-> "category_grouping",
              description |-> "Kategori-gruppering: " \o ToString(num_input) \o " verdier → "
                                  \o ToString(num_output) \o " (inkl. "
                                  \o ToString(num_new) \o " aggregerte)"]
        ELSE IF Contains(name, "kjønn") \/ Contains(name, "kjonn")
        THEN [type |-> "gender", description |-> "Kjønnsaggregering (Begge kjønn)"]
        ELSE IF \E g \in {"geo", "bydel", "bosted", "arbeidssted"} : Contains(name, g)
        THEN [type        |-> "geography",
              description |-> "Geografisk aggregering (Oslo i alt / bydel-nivå)"]
        ELSE [type |-> "other", description |-> "Aggregering i " \o col_name]

-----------------------------------------------------------------------------
(* The copies, called after the detector *)

\* the caller passes the same tables and mapping to the copy of the detector
ScriptDetect ==
    /\ d_pc = "returned"
    /\ d_calls = 2
    /\ ~script_ret.called
    /\ script_ret' = ScriptDetectPatterns(df_input, df_output, mappings)
    /\ UNCHANGED <<df_input, df_output, mappings, d_call, classified, aggregations, pos,
                   d_pc, d_ret, d_prev, d_calls>>
    /\ UNCHANGED <<evars, pvars>>

\* the caller classifies what each finding of the detector holds
ClassifyFindings ==
    /\ d_pc = "returned"
    /\ script_ret.called
    /\ d_ret.aggregations # <<>>
    /\ classified = <<>>
    /\ classified' =
          [n \in DOMAIN d_ret.aggregations |->
              LET f == d_ret.aggregations[n]
              IN  classify_aggregation_type(f.column, Range(f.new_values),
                                            Range(f.input_values), Range(f.output_values))]
    /\ UNCHANGED <<df_input, df_output, mappings, d_call, script_ret, aggregations, pos,
                   d_pc, d_ret, d_prev, d_calls>>
    /\ UNCHANGED <<evars, pvars>>

NextDetect ==
    \/ StartDetect
    \/ SkipLabel
    \/ SkipMissing
    \/ SkipCardinality
    \/ NoNewValues
    \/ AppendFinding
    \/ ReturnFindings
    \/ DetectAgain
    \/ ScriptDetect
    \/ ClassifyFindings

SpecDetect == InitDetect /\ [][NextDetect]_vars

-----------------------------------------------------------------------------
(* detect_variable_pairs *)

MaxPairRows == 3

\* pd.api.types.is_string_dtype of a column of strings without missing values
is_string_dtype(dt) == dt = "object"

\* the pattern a column name matches: lowercased it ends with '_fmt', or it
\* ends with '.1'
PatternOf(c) ==
    IF EndsWith(Lower(c), "_fmt") THEN "_fmt"
    ELSE IF EndsWith(c, ".1") THEN ".1_variant"
    ELSE "none"

\* base = c[:-4] or c[:-2]
BaseName(c) ==
    IF PatternOf(c) = "_fmt" THEN SubSeq(c, 1, Len(c) - 4)
    ELSE SubSeq(c, 1, Len(c) - 2)

\* df[[base, c]].dropna().drop_duplicates().shape[0]
PairUnique(df, base, c) ==
    Cardinality({ <<df.rows[n][base], df.rows[n][c]>> :
                    n \in {m \in DOMAIN df.rows :
                             ~IsNull(df.rows[m][base]) /\ ~IsNull(df.rows[m][c])} })

\* base_unique == label_unique == pair_unique
CountsAgree(df, base, c) ==
    /\ NUnique(df, base) = NUnique(df, c)
    /\ NUnique(df, c) = PairUnique(df, base, c)

\* the alternative test: base is numeric and label is text
NumericAndText(df, base, c) ==
    ~is_string_dtype(df.dtype[base]) /\ is_string_dtype(df.dtype[c])

\* the layouts: a code with a label of either pattern, a label before its
\* code, a label without a code, and a code with labels of both patterns
PairLayouts ==
    { <<"kjoenn", "kjoenn_fmt", "antall">>,
      <<"alder", "alder.1", "antall">>,
      <<"kjoenn_fmt", "kjoenn">>,
      <<"bydel_fmt", "antall">>,
      <<"alder", "alder_fmt", "alder.1">> }

\* a row: the code in the code column, the text in every label column
PairRow(columns, code, text) ==
    [c \in Range(columns) |->
        IF c = "antall" THEN 1 ELSE IF PatternOf(c) = "none" THEN code ELSE text]

\* the tables of at most max_rows rows: codes as numbers, some of them
\* missing, or codes as strings; two texts
PairTables(max_rows) ==
    UNION { UNION {
        { [columns |-> columns,
           dtype   |-> [c \in Range(columns) |->
                           IF PatternOf(c) # "none" THEN "object"
                           ELSE IF c = "antall" THEN "int64"
                           ELSE IF as_text THEN "object"
                           ELSE IF \E n \in DOMAIN cells : IsNull(cells[n][1])
                                THEN "float64" ELSE "int64"],
           rows    |-> [n \in DOMAIN cells |-> PairRow(columns, cells[n][1], cells[n][2])]] :
          cells \in UNION { [1..len -> (IF as_text THEN {1, 2} ELSE {1, 2, NaN}) \X {11, 12}] :
                            len \in 0..max_rows } } :
        as_text \in BOOLEAN } : columns \in PairLayouts }

InitPairs ==
    /\ pairs_df \in PairTables(MaxPairRows)
    /\ pairs = <<>>
    /\ used = {}
    /\ col_pos = 0
    /\ p_pc = "start"
    /\ p_ret = <<>>
    /\ EngineIdle
    /\ DetectorIdle

\* cols = df.columns.tolist(); pairs = []; used = set()
StartPairs ==
    /\ p_pc = "start"
    /\ pairs' = <<>>
    /\ used' = {}
    /\ col_pos' = 1
    /\ p_pc' = "loop"
    /\ UNCHANGED <<pairs_df, p_ret>>
    /\ UNCHANGED <<evars, dvars>>

InPairLoop == p_pc = "loop" /\ col_pos <= Len(pairs_df.columns)

\* the column the loop is at matches a pattern, its base is a column, and
\* neither is in a pair yet
Candidate ==
    /\ InPairLoop
    /\ LET c == pairs_df.columns[col_pos]
       IN  /\ PatternOf(c) # "none"
           /\ InSeq(BaseName(c), pairs_df.columns)
           /\ BaseName(c) \notin used
           /\ c \notin used

NewPair(c) == [base |-> BaseName(c), label |-> c, pattern |-> PatternOf(c)]

\* no pattern, no base column, or a column already in a pair: next column
NextColumn ==
    /\ InPairLoop
    /\ ~Candidate
    /\ col_pos' = col_pos + 1
    /\ UNCHANGED <<pairs_df, pairs, used, p_pc, p_ret>>
    /\ UNCHANGED <<evars, dvars>>

\* the three counts are equal: the pair is appended
AppendCounted ==
    /\ Candidate
    /\ LET c == pairs_df.columns[col_pos]
       IN  /\ CountsAgree(pairs_df, BaseName(c), c)
           /\ pairs' = Append(pairs, NewPair(c))
           /\ used' = used \cup {BaseName(c), c}
    /\ col_pos' = col_pos + 1
    /\ UNCHANGED <<pairs_df, p_pc, p_ret>>
    /\ UNCHANGED <<evars, dvars>>

\* the counts differ, but base is numeric and label is text: the pair is
\* appended
AppendNumericAndText ==
    /\ Candidate
    /\ LET c == pairs_df.columns[col_pos]
       IN  /\ ~CountsAgree(pairs_df, BaseName(c), c)
           /\ NumericAndText(pairs_df, BaseName(c), c)
           /\ pairs' = Append(pairs, NewPair(c))
           /\ used' = used \cup {BaseName(c), c}
    /\ col_pos' = col_pos + 1
    /\ UNCHANGED <<pairs_df, p_pc, p_ret>>
    /\ UNCHANGED <<evars, dvars>>

\* neither test holds: nothing is appended
NoPair ==
    /\ Candidate
    /\ LET c == pairs_df.columns[col_pos]
       IN  /\ ~CountsAgree(pairs_df, BaseName(c), c)
           /\ ~NumericAndText(pairs_df, BaseName(c), c)
    /\ col_pos' = col_pos + 1
    /\ UNCHANGED <<pairs_df, pairs, used, p_pc, p_ret>>
    /\ UNCHANGED <<evars, dvars>>

\* return pairs
ReturnPairs ==
    /\ p_pc = "loop"
    /\ col_pos > Len(pairs_df.columns)
    /\ p_ret' = pairs
    /\ p_pc' = "returned"
    /\ UNCHANGED <<pairs_df, pairs, used, col_pos>>
    /\ UNCHANGED <<evars, dvars>>

NextPairs ==
    \/ StartPairs
    \/ NextColumn
    \/ AppendCounted
    \/ AppendNumericAndText
    \/ NoPair
    \/ ReturnPairs

SpecPairs == InitPairs /\ [][NextPairs]_vars

-----------------------------------------------------------------------------
(* Vocabulary of the properties *)

\* the call returned the assembled table (not the identity case)
Returned == pc = "done" /\ aggregeringer # <<>>

\* the non-empty sets of descriptor positions, as increasing tuples
IncreasingTuples(n) ==
    { t \in UNION { [1..r -> 1..n] : r \in 1..n } :
        \A a, b \in DOMAIN t : a < b => t[a] < t[b] }

\* smaller sets first, sets of one size in lexicographic order of positions
SubsetBefore(a, b) ==
    \/ Len(a) < Len(b)
    \/ /\ Len(a) = Len(b)
       /\ \E n \in DOMAIN a : (\A m \in 1..(n - 1) : a[m] = b[m]) /\ a[n] < b[n]

RECURSIVE SortSubsets(_)
SortSubsets(set) ==
    IF set = {} THEN <<>>
    ELSE LET first == CHOOSE t \in set : \A o \in set \ {t} : SubsetBefore(t, o)
         IN  <<first>> \o SortSubsets(set \ {first})

SubsetOrder == [n \in 0..MaxAggs |-> SortSubsets(IncreasingTuples(n))]

ExpectedSubsets == SubsetOrder[Len(aggregeringer)]

\* the subset the k-th roll-up block is expected to be for
SubsetAt(k) == IF k \in DOMAIN ExpectedSubsets THEN ExpectedSubsets[k] ELSE <<>>

Blocks == 1..Len(agg_results)

RECURSIVE BlockStart(_)
BlockStart(k) ==
    IF k = 1 THEN Len(df_base.rows)
    ELSE BlockStart(k - 1) + Len(agg_results[k - 1].rows)

\* the rows of the returned table that the k-th roll-up block occupies
Slice(k) ==
    SubSeq(ret.df.rows, BlockStart(k) + 1, BlockStart(k) + Len(agg_results[k].rows))

Cell(row, c) == IF c \in DOMAIN row THEN row[c] ELSE NaN

\* the base rows that agree with a row on the given columns
Sharing(row, cols) ==
    SelectSeq(df_base.rows, LAMBDA b : \A n \in DOMAIN cols : b[cols[n]] = Cell(row, cols[n]))

\* every descriptor of the subset names a column of the base table
OnExisting(S) == \A n \in DOMAIN S : InSeq(aggregeringer[S[n]].kolonne, df_base.columns)

\* the columns the roll-up of a subset groups on
RollupGroupCols(S) ==
    GroupCols(df_base, CrossExcludeCols(df_base, aggregeringer, S, value_cols))

\* the grouping columns by the stated rule: every column but the dimensions
\* in S, the label column resolved for each, and the measure columns
RuleGroupCols(S) ==
    LET dims   == Kolonner(aggregeringer, S)
        labels == { find_label_col(dims[n], df_base.columns) : n \in DOMAIN dims }
    IN  SelectSeq(df_base.columns,
                  LAMBDA c : ~InSeq(c, dims) /\ c \notin labels /\ ~InSeq(c, value_cols))

DistinctKeys(cols) == { GroupKey(df_base.rows[n], cols) : n \in DOMAIN df_base.rows }

RECURSIVE SumOver(_, _)
SumOver(f, set) ==
    IF set = {} THEN 0
    ELSE LET x == CHOOSE x \in set : TRUE IN f[x] + SumOver(f, set \ {x})

\* the sum of a column over rows, a missing value adding nothing
Total(rows, c) ==
    SumOver([n \in DOMAIN rows |-> IF Cell(rows[n], c) = NaN THEN 0 ELSE Cell(rows[n], c)],
            DOMAIN rows)

\* the call resolved its measure columns itself and has not been re-entered
AutoResolved ==
    /\ value_cols_arg.is_none
    /\ aggregeringer # <<>>
    /\ pc \in {"single", "cross", "done", "raised"}

\* the call was given its measure columns and has not been re-entered
ExplicitResolved ==
    /\ ~value_cols_arg.is_none
    /\ aggregeringer # <<>>
    /\ pc \in {"single", "cross", "done", "raised"}

\* the columns that are neither supplied measure columns, nor dimensions of
\* the subset, nor named like a label column
OtherColumns(S) ==
    SelectSeq(df_base.columns,
              LAMBDA c : /\ ~InSeq(c, value_cols_arg.list)
                         /\ \A n \in DOMAIN S : aggregeringer[S[n]].kolonne # c
                         /\ ~is_label_col(c))

\* the label column of a dimension by the stated order, "" when it has none
FirstLabel(d) ==
    IF InSeq(d \o ".1", df_base.columns) THEN d \o ".1"
    ELSE IF InSeq(d \o "_fmt", df_base.columns) THEN d \o "_fmt"
    ELSE IF InSeq(d \o "_label", df_base.columns) THEN d \o "_label"
    ELSE IF InSeq(d \o "_navn", df_base.columns) THEN d \o "_navn"
    ELSE IF InSeq(d \o "_name", df_base.columns) THEN d \o "_name"
    ELSE ""

\* the names a label column of a dimension can have
LabelNames(d) == {d \o ".1", d \o "_fmt", d \o "_label", d \o "_navn", d \o "_name"}

IsDescriptorColumn(c) == \E d \in DOMAIN aggregeringer : aggregeringer[d].kolonne = c

HasKeyword(c, keywords) == \E n \in DOMAIN keywords : Contains(Lower(c), keywords[n])

\* the column names of the base tables, and those among them whose lowercased
\* name holds a measure keyword or a dimension keyword
NamedColumns ==
    UNION { Range(columns) : columns \in Schemas \cup {LongColumns, DetailColumns} }

MeasureNamed == { c \in NamedColumns : HasKeyword(c, value_keywords) }

DimensionNamed == { c \in NamedColumns : HasKeyword(c, dimension_keywords) }

LabelNamed == { c \in NamedColumns : is_label_col(c) }

\* the number of distinct non-missing values of a base column
DistinctCount(c) ==
    Cardinality({ Cell(df_base.rows[n], c) : n \in DOMAIN df_base.rows } \ {NaN})

\* the detector returned its findings, and no copy has been called since
Detected == d_pc = "returned" /\ ~script_ret.called

Findings == d_ret.aggregations

\* the findings returned for a mapping entry
FindingsOf(e) ==
    { n \in DOMAIN Findings :
        /\ Findings[n].input_column = mappings[e].col_in
        /\ Findings[n].column = mappings[e].col_out }

\* both columns of a mapping entry are in their tables
InTables(e) ==
    /\ InSeq(mappings[e].col_in, df_input.columns)
    /\ InSeq(mappings[e].col_out, df_output.columns)

\* the non-null values of the two columns of an entry, as strings, and the
\* output values that are not input values
InValues(e)  == StrValues(df_input, mappings[e].col_in)
OutValues(e) == StrValues(df_output, mappings[e].col_out)
NewValues(e) == OutValues(e) \ InValues(e)

\* the number of distinct non-null values of the output column of an entry
OutDistinct(e) == Cardinality(Range(df_output.cells[mappings[e].col_out]) \ {NullCell})

\* an entry the detector compares: no label pair, both columns in their
\* tables, at most 50 distinct output values
ConsideredEntry(e) ==
    /\ ~IsLabelPair(mappings[e].col_in, mappings[e].col_out)
    /\ InTables(e)
    /\ OutDistinct(e) <= 50

BinaryCase(e) == Cardinality(InValues(e)) = 2 /\ Cardinality(NewValues(e)) = 1

GeographyCase(e) ==
    /\ \A v \in NewValues(e) : Len(v) <= 3
    /\ \A v \in InValues(e) : Len(v) > 3

CategoryCase(e) == Cardinality(InValues(e)) > 10 /\ Cardinality(NewValues(e)) < 5

\* the type the name of an output column stands for
TypeByName(col_out) ==
    IF Contains(Lower(col_out), "kjønn") \/ Contains(Lower(col_out), "kjonn") THEN "gender"
    ELSE IF \E g \in {"geo", "bydel", "bosted", "arbeidssted"} : Contains(Lower(col_out), g)
         THEN "geography"
    ELSE "other"

-----------------------------------------------------------------------------
(* Properties *)

\* C1: mass conservation.  In the returned table, each row of the roll-up of
\* a subset S on existing columns that has a grouping column holds, in every
\* measure column, the sum of that column over the base rows sharing the
\* row's grouping values; so the roll-up's total equals the base total.
C1_MassConservation ==
    Returned =>
        \A k \in Blocks :
            LET S == SubsetAt(k)
                G == RollupGroupCols(S)
            IN  (OnExisting(S) /\ G # <<>>) =>
                    \A m \in DOMAIN value_cols :
                        /\ \A n \in DOMAIN Slice(k) :
                              Cell(Slice(k)[n], value_cols[m])
                                  = Total(Sharing(Slice(k)[n], G), value_cols[m])
                        /\ Total(Slice(k), value_cols[m])
                              = Total(df_base.rows, value_cols[m])

\* a roll-up row of a subset on existing columns that sums two base rows
C1_Witness ==
    /\ Returned
    /\ \E k \in Blocks :
          /\ OnExisting(SubsetAt(k))
          /\ RollupGroupCols(SubsetAt(k)) # <<>>
          /\ \E n \in DOMAIN Slice(k) :
                /\ Len(Sharing(Slice(k)[n], RollupGroupCols(SubsetAt(k)))) = 2
                /\ Cell(Slice(k)[n], "antall") = 3

\* C2: grand-total degeneration.  For every non-empty subset of any size
\* with no grouping column the call does not fail, and the subset's roll-up
\* is one row holding the sums over the whole base table and the total codes.
C2_GrandTotalAnySize ==
    /\ pc = "raised" => RuleGroupCols(<<i>>) # <<>>
    /\ Returned =>
          \A k \in Blocks :
              RuleGroupCols(SubsetAt(k)) = <<>> =>
                  /\ Len(Slice(k)) = 1
                  /\ \A m \in DOMAIN value_cols :
                        Cell(Slice(k)[1], value_cols[m]) = Total(df_base.rows, value_cols[m])
                  /\ \A n \in DOMAIN SubsetAt(k) :
                        Cell(Slice(k)[1], aggregeringer[SubsetAt(k)[n]].kolonne)
                            = aggregeringer[SubsetAt(k)[n]].total_verdi

\* C3: final assembly.  The returned rows are the base rows followed by the
\* rows of 2^N - 1 roll-up blocks, nothing removed, and the k-th block is the
\* roll-up of the k-th subset in the order: size 1, 2, ..., N, each size in
\* lexicographic order of list positions (a row carries the total code of
\* exactly the descriptors of its block's subset).
C3_AssemblyOrder ==
    Returned =>
        /\ Len(agg_results) = 2 ^ Len(aggregeringer) - 1
        /\ Len(ExpectedSubsets) = Len(agg_results)
        /\ ret.df.rows = ConcatRows(<<df_base>> \o agg_results, ret.df.columns)
        /\ \A k \in Blocks : \A n \in DOMAIN Slice(k) : \A d \in DOMAIN aggregeringer :
              (Cell(Slice(k)[n], aggregeringer[d].kolonne) = aggregeringer[d].total_verdi)
                  <=> InSeq(d, SubsetAt(k))

\* three descriptors, every one of the seven blocks with a row
C3_Witness ==
    /\ Returned
    /\ Len(aggregeringer) = 3
    /\ \A k \in Blocks : Len(Slice(k)) >= 1
    /\ SubsetAt(5) = <<1, 3>>

\* C4: row count.  The returned table has len(base) rows plus, for every
\* non-empty subset, the number of distinct value combinations of the
\* subset's grouping columns in the base table (1 when it has none).
C4_RowCount ==
    Returned =>
        Len(ret.df.rows)
            = Len(df_base.rows)
              + SumOver([S \in IncreasingTuples(Len(aggregeringer)) |->
                            IF RollupGroupCols(S) = <<>> THEN 1
                            ELSE Cardinality(DistinctKeys(RollupGroupCols(S)))],
                        IncreasingTuples(Len(aggregeringer)))

\* one descriptor, two base rows in one group: len(base) + 1 rows
C4_Witness ==
    /\ Returned
    /\ Len(aggregeringer) = 1
    /\ Len(df_base.rows) = 2
    /\ Cardinality(DistinctKeys(RollupGroupCols(<<1>>))) = 1
    /\ Len(ret.df.rows) = 3

\* C5: grouping-column rule.  In the roll-up of a subset S every column but
\* S's dimensions, their resolved label columns and the measure columns is
\* grouped on: each roll-up row has in all those columns, the label column
\* of a dimension not in S included, the values of one base row.
C5_GroupingRule ==
    Returned =>
        \A k \in Blocks :
            /\ RollupGroupCols(SubsetAt(k)) = RuleGroupCols(SubsetAt(k))
            /\ \A n \in DOMAIN Slice(k) : Sharing(Slice(k)[n], RuleGroupCols(SubsetAt(k))) # <<>>

\* C6: label consistency.  Every roll-up row of a subset containing a
\* descriptor whose dimension has a label column in the base table carries
\* the descriptor's total code and, in the label column, its total label.
C6_LabelConsistency ==
    Returned =>
        \A k \in Blocks : \A n \in DOMAIN Slice(k) : \A j \in DOMAIN SubsetAt(k) :
            LET d   == aggregeringer[SubsetAt(k)[j]]
                lbl == find_label_col(d.kolonne, df_base.columns)
            IN  (InSeq(d.kolonne, df_base.columns) /\ lbl # NoLabel) =>
                    /\ Cell(Slice(k)[n], d.kolonne) = d.total_verdi
                    /\ Cell(Slice(k)[n], lbl) = d.total_label

\* a cross roll-up row of two labelled dimensions, the base holding labels
C6_Witness ==
    /\ Returned
    /\ \E k \in Blocks :
          /\ Len(SubsetAt(k)) = 2
          /\ Slice(k) # <<>>
          /\ \A j \in DOMAIN SubsetAt(k) :
                find_label_col(aggregeringer[SubsetAt(k)[j]].kolonne, df_base.columns) # NoLabel
          /\ Cell(Slice(k)[1], "kjonn.1") = 30
          /\ Cell(Slice(k)[1], "bosted_fmt") = 31
          /\ \E n \in DOMAIN df_base.rows : Cell(df_base.rows[n], "bosted_fmt") = 11

\* C7: fail fast on a missing dimension.  When a descriptor names a column
\* the base table does not have, the call returns no table.
C7_MissingDimensionFails ==
    (\E d \in DOMAIN aggregeringer : ~InSeq(aggregeringer[d].kolonne, df_base.columns))
        => pc \notin {"done", "mutated"}

\* C8: identity case.  With no descriptor the call returns the base table's
\* columns, dtypes and rows in the same order, in another object: changing
\* the returned table leaves the base table as it was.
C8_IdentityCopy ==
    call.aggregeringer = <<>> =>
        /\ pc = "done" => ret.df = call.df_base /\ ret.ref = "new"
        /\ pc \in {"done", "mutated"} => df_base = call.df_base

\* the caller changed the table the identity case returned
C8_Witness ==
    /\ call.aggregeringer = <<>>
    /\ pc = "mutated"
    /\ ret.df # call.df_base
    /\ ~value_cols_arg.is_none

\* C9: null groups are kept.  For every roll-up block that groups on some
\* column, every base row, also one with a missing grouping value, has its
\* group in the block, holding the sums over the base rows of that group.
C9_NullGroupsKept ==
    Returned =>
        \A k \in Blocks :
            LET G == RollupGroupCols(SubsetAt(k))
            IN  G # <<>> =>
                    \A b \in DOMAIN df_base.rows :
                        \E n \in DOMAIN Slice(k) :
                            /\ \A g \in DOMAIN G : Cell(Slice(k)[n], G[g]) = df_base.rows[b][G[g]]
                            /\ \A m \in DOMAIN value_cols :
                                  Cell(Slice(k)[n], value_cols[m])
                                      = Total(Sharing(df_base.rows[b], G), value_cols[m])

\* a roll-up row for the group with a missing value of bosted
C9_Witness ==
    /\ Returned
    /\ \E k \in Blocks :
          /\ InSeq("bosted", RollupGroupCols(SubsetAt(k)))
          /\ \E n \in DOMAIN Slice(k) :
                /\ IsNull(Cell(Slice(k)[n], "bosted"))
                /\ Cell(Slice(k)[n], "antall") >= 2
                /\ Len(Sharing(Slice(k)[n], RollupGroupCols(SubsetAt(k)))) = 2

\* C10: purity.  A call changes none of its three arguments, and a second
\* call with the same arguments returns the same as the first.
C10_Purity ==
    /\ pc # "mutated" =>
          /\ df_base = call.df_base
          /\ aggregeringer = call.aggregeringer
          /\ value_cols_arg = call.value_cols
    /\ (calls = 2 /\ pc = "done") => ret = prev

\* a second call returned a table with roll-up rows
C10_Witness ==
    /\ calls = 2
    /\ Returned
    /\ Len(ret.df.rows) > Len(df_base.rows)
    /\ prev.ref = "new"

C12_AntallAlwaysMeasure ==
    (AutoResolved /\ InSeq("antall", df_base.columns)
                  /\ df_base.dtype["antall"] \in NumericDtypes
                  /\ ~IsDescriptorColumn("antall")) =>
        /\ InSeq("antall", value_cols)
        /\ Returned =>
              \A k \in Blocks :
                  OnExisting(SubsetAt(k)) =>
                      \A n \in DOMAIN Slice(k) :
                          Cell(Slice(k)[n], "antall")
                              = Total(Sharing(Slice(k)[n], RollupGroupCols(SubsetAt(k))),
                                      "antall")

\* a returned table of five base rows with one antall value in all of them,
\* and a roll-up row that sums several of them
C12_Witness ==
    /\ AutoResolved
    /\ Returned
    /\ Len(df_base.rows) = 5
    /\ DistinctCount("antall") = 1
    /\ \E k \in Blocks : \E n \in DOMAIN Slice(k) :
          /\ OnExisting(SubsetAt(k))
          /\ Cell(Slice(k)[n], "antall") = 5 * Cell(df_base.rows[1], "antall")

\* C13: classification priority.  The type of every finding is that of the
\* first rule that matches, in the order binary_total, geography_rollup,
\* category_grouping, name of the output column; the name decides only when
\* none of the three value rules matches, and gives other when it holds
\* neither a gender nor a geography word.
C13_ClassificationPriority ==
    Detected =>
        \A e \in DOMAIN mappings : \A n \in FindingsOf(e) :
            Findings[n].type =
                IF BinaryCase(e) THEN "binary_total"
                ELSE IF GeographyCase(e) THEN "geography_rollup"
                ELSE IF CategoryCase(e) THEN "category_grouping"
                ELSE TypeByName(mappings[e].col_out)

\* a binary_total finding of a pair that also meets the geography rule: two
\* input values longer than 3 and one new value of at most 3 characters
C13_Witness ==
    /\ Detected
    /\ \E e \in DOMAIN mappings : \E n \in FindingsOf(e) :
          /\ BinaryCase(e)
          /\ GeographyCase(e)
          /\ Findings[n].type = "binary_total"

\* C14: binary total.  A considered entry whose input column has exactly 2
\* distinct non-null values and whose output column has exactly 1 value not
\* in the input gets exactly one finding, of type binary_total, whose
\* new_values is the list of that one value.
C14_BinaryTotal ==
    Detected =>
        \A e \in DOMAIN mappings :
            (ConsideredEntry(e) /\ BinaryCase(e)) =>
                /\ Cardinality(FindingsOf(e)) = 1
                /\ \A n \in FindingsOf(e) :
                      /\ Findings[n].type = "binary_total"
                      /\ Len(Findings[n].new_values) = 1
                      /\ NewValues(e) = {Findings[n].new_values[1]}

\* two entries, the second a binary pair with its finding
C14_Witness ==
    /\ Detected
    /\ Len(mappings) = 2
    /\ ConsideredEntry(2)
    /\ BinaryCase(2)
    /\ FindingsOf(2) # {}

\* C15: geography roll-up.  For a finding of a pair that is not a binary
\* total: when every new value has at most 3 characters and every input
\* value more than 3 the type is geography_rollup, and otherwise the type is
\* not geography_rollup.
C15_GeographyRollup ==
    Detected =>
        \A e \in DOMAIN mappings : \A n \in FindingsOf(e) :
            ~BinaryCase(e) =>
                (Findings[n].type = "geography_rollup"
                    <=> /\ \A v \in NewValues(e) : Len(v) <= 3
                        /\ \A v \in InValues(e) : Len(v) > 3)

\* a geography_rollup finding of three detailed codes and one short new code
C15_Witness ==
    /\ Detected
    /\ \E e \in DOMAIN mappings : \E n \in FindingsOf(e) :
          /\ Cardinality(InValues(e)) = 3
          /\ NewValues(e) = {"301"}
          /\ Findings[n].type = "geography_rollup"

\* C16: a considered entry has a finding exactly when its output column
\* holds a non-null value, as a string, that is not among the input column's
\* non-null values as strings.
C16_FindingIffNewValue ==
    Detected =>
        \A e \in DOMAIN mappings :
            ConsideredEntry(e) => (FindingsOf(e) # {} <=> ~(OutValues(e) \subseteq InValues(e)))

\* a considered entry whose output values are some of its input values and
\* that has no finding
C16_Witness ==
    /\ Detected
    /\ \E e \in DOMAIN mappings :
          /\ ConsideredEntry(e)
          /\ OutValues(e) # {}
          /\ OutValues(e) \subseteq InValues(e)
          /\ OutValues(e) # InValues(e)
          /\ FindingsOf(e) = {}

\* C17: cardinality ceiling.  An entry whose output column has more than 50
\* distinct values has no finding; one with at most 50, whatever the number
\* of input values, has a finding when the output holds a new value.
C17_CardinalityCeiling ==
    Detected =>
        \A e \in DOMAIN mappings :
            (~IsLabelPair(mappings[e].col_in, mappings[e].col_out) /\ InTables(e)) =>
                /\ OutDistinct(e) > 50 => FindingsOf(e) = {}
                /\ (OutDistinct(e) <= 50 /\ NewValues(e) # {}) => FindingsOf(e) # {}

\* an output column of exactly 50 distinct values against an input column of
\* 51, with a finding
C17_Witness ==
    /\ Detected
    /\ \E e \in DOMAIN mappings :
          /\ InTables(e)
          /\ OutDistinct(e) = 50
          /\ Cardinality(InValues(e)) = 51
          /\ FindingsOf(e) # {}

\* C18: label companions.  An entry has no finding when the name of its
\* input column or of its output column ends in _fmt, or when the name of
\* its output column contains .1 or .2.
C18_LabelCompanionsSkipped ==
    Detected =>
        \A e \in DOMAIN mappings :
            (\/ EndsWith(mappings[e].col_in, "_fmt")
             \/ EndsWith(mappings[e].col_out, "_fmt")
             \/ Contains(mappings[e].col_out, ".1")
             \/ Contains(mappings[e].col_out, ".2")) => FindingsOf(e) = {}

\* C19: fully-null columns.  An entry whose input column holds only null
\* values, or whose output column holds only null values, has no finding.
C19_FullyNullSkipped ==
    Detected =>
        \A e \in DOMAIN mappings :
            (InTables(e) /\ (InValues(e) = {} \/ OutValues(e) = {})) => FindingsOf(e) = {}

\* C20: idempotence and no side effects.  A run changes neither table nor
\* the mapping, and a second run on them returns the list of findings the
\* first returned.
C20_IdempotentDetection ==
    /\ df_input = d_call.df_input
    /\ df_output = d_call.df_output
    /\ mappings = d_call.mappings
    /\ (d_calls = 2 /\ Detected) => d_ret = d_prev

\* a second run that returned two findings
C20_Witness ==
    /\ d_calls = 2
    /\ Detected
    /\ Len(Findings) = 2
    /\ d_prev.returned

\* C22: explicit measure columns.  When value_cols is supplied the measure
\* columns are exactly the supplied ones, and in every roll-up row each of
\* them holds the sum over the base rows that share the row's values in all
\* other columns that are neither a dimension of the subset nor a label
\* column: those columns are grouped on, whatever their name or values.
C22_ExplicitMeasureColumns ==
    ExplicitResolved =>
        /\ value_cols = value_cols_arg.list
        /\ Returned =>
              \A k \in Blocks : \A n \in DOMAIN Slice(k) :
                  LET group == Sharing(Slice(k)[n], OtherColumns(SubsetAt(k)))
                  IN  /\ OtherColumns(SubsetAt(k)) # <<>> => group # <<>>
                      /\ \A m \in DOMAIN value_cols_arg.list :
                            Cell(Slice(k)[n], value_cols_arg.list[m])
                                = Total(group, value_cols_arg.list[m])

\* supplied antall: a roll-up row that keeps the year and a code column that
\* auto-detection would have summed, and sums antall over two base rows
C22_Witness ==
    /\ ExplicitResolved
    /\ Returned
    /\ \E k \in Blocks : \E n \in DOMAIN Slice(k) :
          /\ Cell(Slice(k)[n], "aar") = 2024
          /\ Cell(Slice(k)[n], "kjonn") \in {1, 2}
          /\ InSeq("kjonn", OtherColumns(SubsetAt(k)))
          /\ Len(Sharing(Slice(k)[n], OtherColumns(SubsetAt(k)))) = 2

\* C23: label resolution order.  In the roll-up rows of every subset that
\* contains a descriptor, the first existing column among d.1, d_fmt,
\* d_label, d_navn, d_name holds the descriptor's total label and no other
\* column of these names does; when none of them exists the rows hold the
\* total code and the returned table has no column of these names.
C23_LabelResolutionOrder ==
    Returned =>
        \A k \in Blocks : \A j \in DOMAIN SubsetAt(k) :
            LET agg == aggregeringer[SubsetAt(k)[j]]
                lbl == FirstLabel(agg.kolonne)
            IN  \A n \in DOMAIN Slice(k) :
                    /\ Cell(Slice(k)[n], agg.kolonne) = agg.total_verdi
                    /\ lbl # "" => Cell(Slice(k)[n], lbl) = agg.total_label
                    /\ \A c \in LabelNames(agg.kolonne) \ {lbl} :
                          /\ Cell(Slice(k)[n], c) # agg.total_label
                          /\ lbl = "" => ~InSeq(c, ret.df.columns)

\* a dimension with both a _fmt and a .1 column, the _fmt column first in the
\* table: the roll-up rows hold the total label in the .1 column
C23_Witness ==
    /\ Returned
    /\ InSeq("kjonn_fmt", df_base.columns)
    /\ InSeq("kjonn.1", df_base.columns)
    /\ \E k \in Blocks : \E n \in DOMAIN Slice(k) :
          /\ Cell(Slice(k)[n], "kjonn") = 3
          /\ Cell(Slice(k)[n], "kjonn.1") = 30
          /\ Cell(Slice(k)[n], "kjonn_fmt") # 30

\* C26: whenever the call returns a table for N descriptors that all name
\* existing columns, the sum of every measure column over the returned table
\* is 2^N times its sum over the base table.
C26_TotalTimesPowerOfTwo ==
    (Returned /\ \A d \in DOMAIN aggregeringer : InSeq(aggregeringer[d].kolonne, df_base.columns)) =>
        \A m \in DOMAIN value_cols :
            Total(ret.df.rows, value_cols[m])
                = (2 ^ Len(aggregeringer)) * Total(df_base.rows, value_cols[m])

\* two descriptors on existing columns and a base table whose antall sums
\* to 3: the returned table sums to 12
C26_Witness ==
    /\ Returned
    /\ Len(aggregeringer) = 2
    /\ \A d \in DOMAIN aggregeringer : InSeq(aggregeringer[d].kolonne, df_base.columns)
    /\ InSeq("antall", value_cols)
    /\ Total(df_base.rows, "antall") = 3
    /\ Total(ret.df.rows, "antall") = 12

-----------------------------------------------------------------------------
(* C27 *)

\* the columns of the base table not named like a label column: the
\* dimension codes and the measures
CodeAndMeasureColumns == SelectSeq(df_base.columns, LAMBDA c : ~is_label_col(c))

\* the dimension-code columns other than those of the descriptors a and b
RemainingCodes(a, b) ==
    SelectSeq(CodeAndMeasureColumns,
              LAMBDA c : /\ ~InSeq(c, value_cols)
                         /\ c # aggregeringer[a].kolonne
                         /\ c # aggregeringer[b].kolonne)

\* the block of the roll-up over the descriptors a and b together
PairBlock(a, b) == CHOOSE k \in DOMAIN ExpectedSubsets : ExpectedSubsets[k] = <<a, b>>

Agree(r, q, cols) == \A n \in DOMAIN cols : Cell(r, cols[n]) = Cell(q, cols[n])

Projected(rows) ==
    [n \in DOMAIN rows |-> [c \in Range(CodeAndMeasureColumns) |-> Cell(rows[n], c)]]

Occurrences(x, s) == Cardinality({n \in DOMAIN s : s[n] = x})

SameMultiset(s, t) ==
    /\ Len(s) = Len(t)
    /\ \A n \in DOMAIN s : Occurrences(s[n], s) = Occurrences(s[n], t)

\* two descriptors on distinct existing columns whose total codes the base
\* table does not hold
ConsistencyCase(a, b) ==
    /\ a < b
    /\ OnExisting(<<a, b>>)
    /\ \A d \in {a, b} : \A n \in DOMAIN df_base.rows :
          Cell(df_base.rows[n], aggregeringer[d].kolonne) # aggregeringer[d].total_verdi

\* the rows of the roll-up over a and b are the rows of a's roll-up rolled
\* up over b: one row for each combination of the remaining codes, holding
\* both total codes and the sums of the measures of a's roll-up rows
RolledUpOver(a, b) ==
    LET single == Slice(a)
        cross  == Slice(PairBlock(a, b))
        rest   == RemainingCodes(a, b)
    IN  /\ \A n \in DOMAIN cross :
              /\ Cell(cross[n], aggregeringer[a].kolonne) = aggregeringer[a].total_verdi
              /\ Cell(cross[n], aggregeringer[b].kolonne) = aggregeringer[b].total_verdi
              /\ \A m \in DOMAIN value_cols :
                    Cell(cross[n], value_cols[m])
                      = Total(SelectSeq(single, LAMBDA r : Agree(r, cross[n], rest)), value_cols[m])
              /\ \A o \in DOMAIN cross : Agree(cross[o], cross[n], rest) => o = n
        /\ \A n \in DOMAIN single : \E m \in DOMAIN cross : Agree(single[n], cross[m], rest)

\* the sequential strategy gives the rows of the returned table, as a
\* multiset over the dimension-code and measure columns
SequentialAgrees ==
    LET seq == Strategi1(df_base, aggregeringer)
    IN  /\ ~seq.raised
        /\ SameMultiset(Projected(seq.df.rows), Projected(ret.df.rows))

\* the tables the strategy is written for: some row, 'antall' the one
\* measure column, and no label column other than the '.1' columns
StrategyLayout ==
    /\ df_base.rows # <<>>
    /\ value_cols = <<"antall">>
    /\ \A n \in DOMAIN df_base.columns :
          is_label_col(df_base.columns[n]) => EndsWith(df_base.columns[n], ".1")

-----------------------------------------------------------------------------
(* C28 *)

\* the columns of the base table that are neither measure columns nor named
\* like a label column
KeyColumns ==
    SelectSeq(df_base.columns, LAMBDA c : ~InSeq(c, value_cols) /\ ~is_label_col(c))

\* no two rows agree on all key columns
UniqueOnKey(rows) ==
    \A n, m \in DOMAIN rows : Agree(rows[n], rows[m], KeyColumns) => n = m

\* every descriptor is on an existing column whose total code the base table
\* does not hold
TotalsAreNew ==
    /\ OnExisting([d \in DOMAIN aggregeringer |-> d])
    /\ \A d \in DOMAIN aggregeringer : \A n \in DOMAIN df_base.rows :
          Cell(df_base.rows[n], aggregeringer[d].kolonne) # aggregeringer[d].total_verdi

\* C28: if no two base rows agree on all non-measure, non-label columns,
\* the descriptors name distinct existing columns and no total code occurs
\* in its column of the base table, then no two rows of the returned table
\* agree on all non-measure, non-label columns.
C28_KeyUniqueness ==
    (Returned /\ TotalsAreNew /\ UniqueOnKey(df_base.rows)) => UniqueOnKey(ret.df.rows)

\* a base table of several rows with distinct keys, rolled up over two
\* dimensions, a roll-up merging base rows into fewer rows
C28_Witness ==
    /\ Returned
    /\ TotalsAreNew
    /\ Len(aggregeringer) = 2
    /\ Len(df_base.rows) >= 2
    /\ UniqueOnKey(df_base.rows)
    /\ \E k \in Blocks : Len(agg_results[k].rows) \in 1..(Len(df_base.rows) - 1)
    /\ UniqueOnKey(ret.df.rows)

-----------------------------------------------------------------------------
(* C29 *)

\* the number of rows of all roll-ups together
RollupRowCount == SumOver([k \in Blocks |-> Len(agg_results[k].rows)], Blocks)

\* the row holds the total code of some descriptor in its column
HoldsTotalCode(row) ==
    \E d \in DOMAIN aggregeringer :
        Cell(row, aggregeringer[d].kolonne) = aggregeringer[d].total_verdi

\* C29: for a non-empty descriptor list on existing columns, the first
\* len(base) rows of the returned table are the base rows in their order with
\* all their values, every roll-up row comes after them, and the returned
\* table has exactly the columns of the base table.
C29_BaseRowsPrefix ==
    (Returned /\ OnExisting([d \in DOMAIN aggregeringer |-> d])) =>
        /\ Len(ret.df.rows) = Len(df_base.rows) + RollupRowCount
        /\ SubSeq(ret.df.rows, 1, Len(df_base.rows)) = df_base.rows
        /\ \A n \in DOMAIN ret.df.rows : n > Len(df_base.rows) => HoldsTotalCode(ret.df.rows[n])
        /\ Range(ret.df.columns) = Range(df_base.columns)

\* a base table of several rows with a label column, none holding a total
\* code, returned with roll-up rows after them
C29_Witness ==
    /\ Returned
    /\ OnExisting([d \in DOMAIN aggregeringer |-> d])
    /\ Len(df_base.rows) >= 2
    /\ RollupRowCount >= 2
    /\ \E c \in Range(df_base.columns) : is_label_col(c)
    /\ \A n \in DOMAIN df_base.rows : ~HoldsTotalCode(df_base.rows[n])
    /\ SubSeq(ret.df.rows, 1, Len(df_base.rows)) = df_base.rows

-----------------------------------------------------------------------------
(* C24 *)

\* the place of a character among the code points of the values
CodePoint(ch) == CHOOSE n \in 1..Len(".0123456789") : SubSeq(".0123456789", n, n) = ch

\* the order of Python strings: by code point, character by character, a
\* proper prefix before the longer string
RECURSIVE StrBefore(_, _)
StrBefore(a, b) ==
    IF Len(a) = 0 THEN Len(b) > 0
    ELSE IF Len(b) = 0 THEN FALSE
    ELSE LET x == CodePoint(SubSeq(a, 1, 1))
             y == CodePoint(SubSeq(b, 1, 1))
         IN  \/ x < y
             \/ x = y /\ StrBefore(SubSeq(a, 2, Len(a)), SubSeq(b, 2, Len(b)))

Ascending(list) == \A n \in 1..(Len(list) - 1) : StrBefore(list[n], list[n + 1])

AggregationTypes ==
    {"binary_total", "geography_rollup", "category_grouping", "gender", "geography", "other"}

\* C24: in every finding returned, new_values is non-empty and ascending in
\* the order of strings, input_values and output_values are ascending and
\* hold the values of the entry's columns, new_values holds exactly the
\* output values that are not input values, and type is one of the six types.
C24_FindingStructure ==
    Detected =>
        \A n \in DOMAIN Findings :
            LET f == Findings[n]
            IN  /\ f.new_values # <<>>
                /\ Ascending(f.new_values)
                /\ Ascending(f.input_values)
                /\ Ascending(f.output_values)
                /\ Range(f.new_values) = Range(f.output_values) \ Range(f.input_values)
                /\ f.type \in AggregationTypes
                /\ \E e \in DOMAIN mappings :
                      /\ n \in FindingsOf(e)
                      /\ Range(f.input_values) = InValues(e)
                      /\ Range(f.output_values) = OutValues(e)

\* a finding whose output values the order of strings and the order of
\* numbers place differently, with input values and a new value
C24_Witness ==
    /\ Detected
    /\ \E n \in DOMAIN Findings :
          /\ Len(Findings[n].input_values) >= 2
          /\ Len(Findings[n].new_values) >= 1
          /\ \E a, b \in DOMAIN Findings[n].output_values :
                /\ a < b
                /\ Len(Findings[n].output_values[a]) > Len(Findings[n].output_values[b])

-----------------------------------------------------------------------------
(* C25 *)

\* an entry the detector gets to: no label pair
PastLabelTest(e) == ~IsLabelPair(mappings[e].col_in, mappings[e].col_out)

\* C25: the call returns for mappings with an entry whose input column is not
\* in the input table or whose output column is not in the output table; no
\* finding is returned for such an entry, and every other entry is still
\* evaluated: each entry with both columns, at most 50 output values and a
\* new value has its finding.
C25_MissingColumnsSkipped ==
    /\ d_pc \in {"idle", "start", "loop", "returned"}
    /\ Detected =>
          /\ \A e \in DOMAIN mappings : ~InTables(e) => FindingsOf(e) = {}
          /\ (\E m \in DOMAIN mappings : ~InTables(m)) =>
                \A e \in DOMAIN mappings :
                    (ConsideredEntry(e) /\ NewValues(e) # {}) => FindingsOf(e) # {}

\* an entry whose output column the output table lacks, passed over and
\* followed by an entry that got its finding
C25_Witness ==
    /\ Detected
    /\ \E m, e \in DOMAIN mappings :
          /\ m < e
          /\ PastLabelTest(m)
          /\ InSeq(mappings[m].col_in, df_input.columns)
          /\ ~InSeq(mappings[m].col_out, df_output.columns)
          /\ FindingsOf(m) = {}
          /\ FindingsOf(e) # {}

-----------------------------------------------------------------------------
(* C30 *)

\* every mapped column is in its table
AllInTables == \A e \in DOMAIN mappings : InTables(e)

\* C30: when every mapped column exists in its table, the copy of the
\* detector in the generated-script module returns the list of findings the
\* detector returned, and classify_aggregation_type returns, for the column
\* name, new values and input values of each finding, the type of that finding.
C30_DuplicatesAgree ==
    /\ (script_ret.called /\ AllInTables) =>
          /\ ~script_ret.raised
          /\ script_ret.aggregations = Findings
    /\ classified # <<>> =>
          /\ Len(classified) = Len(Findings)
          /\ \A n \in DOMAIN Findings : classified[n].type = Findings[n].type

\* a mapping of two existing pairs with findings of different types, given
\* by all three implementations
C30_Witness ==
    /\ script_ret.called
    /\ AllInTables
    /\ Len(Findings) = 2
    /\ Findings[1].type # Findings[2].type
    /\ script_ret.aggregations = Findings
    /\ Len(classified) = 2

-----------------------------------------------------------------------------
(* C21 *)

\* in the table every value of the one column occurs with one value of the
\* other column only, either way round
InLockstep(df, base, label) ==
    \A n, m \in DOMAIN df.rows :
        /\ (~IsNull(df.rows[n][base]) /\ df.rows[n][base] = df.rows[m][base])
              => df.rows[n][label] = df.rows[m][label]
        /\ (~IsNull(df.rows[n][label]) /\ df.rows[n][label] = df.rows[m][label])
              => df.rows[n][base] = df.rows[m][base]

\* C21: every pair returned by detect_variable_pairs is in 1:1
\* correspondence in the table: every base value occurs with exactly one
\* label value and every label value with exactly one base value.
C21_PairsInLockstep ==
    p_pc = "returned" =>
        \A n \in DOMAIN p_ret : InLockstep(pairs_df, p_ret[n].base, p_ret[n].label)

====
